---- MODULE Spec2Model ----
(***************************************************************************)
(* A model of the interview engine of resumematching.py: the question      *)
(* distributor, the difficulty selector, the transcript parser and the     *)
(* weighting pass of InterviewAnalyzer.analyse.                            *)
(*                                                                         *)
(* Numbers.  Python floats are modelled by exact integers: a percentage    *)
(* share pct/100*total is the fraction pct*total/100, a weighted score is  *)
(* kept in tenths (multiplier 1.2 is 12), a normalized score in            *)
(* hundredths.  round() is Python 3's round-half-to-even, int() truncates  *)
(* toward zero.                                                            *)
(*                                                                         *)
(* Text.  A Python str is a sequence of tokens: a word, a blank " ", a     *)
(* line break "\n" or a speaker prefix such as "AI:".  x in y is           *)
(* containment of a contiguous token sequence.                             *)
(***************************************************************************)
EXTENDS Integers, Sequences, FiniteSets, TLC

VARIABLES
    \* _distribute_questions
    dpc, evaluation_criteria, total_questions, result,
    \* determine_difficulty_level
    lpc, resume_score, difficulty_level,
    \* _parse_transcript_qa_pairs
    ppc, transcript, line_index, current_question, current_answer, qa_pairs,
    \* analyse: the decoded response and the caller's known question set
    apc, interview_questions, has_question_scores, questions_data,
    communication_score,
    \* analyse: the locals of the weighting pass
    question_index, raw_score, max_score, domain_raw_score, domain_max_score,
    last_main_question_index, followup_counted_for_main, scorable_count,
    \* analyse: the fields the weighting pass stores in the returned analysis
    analysis,
    \* ResumeAnalyzer._repair_json
    rpc, json_str, repaired,
    \* BatchProcessor.process_batch
    bpc, resumes, raises_at, fallback_raises, task_pc, completed, results, stored, batch_failed,
    \* analyse: the LLM response and the outcome of decoding it
    cpc, content, cleaned_content, error_message,
    \* generate_standardized_questions
    gpc, generation_input, question_distribution, llm_calls, response, generated,
    \* AzureOpenAIClient: the semaphore of each client and its calls of complete
    rate_limiter, calls,
    \* generate_adaptive_question_pool: position, input, distribution, loop indices, the calls of the LLM so far, the pool
    qpc, pool_criteria, pool_distribution, pool_position, llm_requests, question_pool,
    pool_number_of_questions, total_base_questions, adaptive_config,
    \* analyze_resume: position, the LLM's response, whether a repair step raises, the cleaned text, the repaired text, the analysis returned
    zpc, llm_response, repair_step_raises, cleaned_response, repaired_json, returned_analysis,
    \* process_resumes_background: per upload its position, files, parsed resumes, batch offset and pipelines; the job's status and stored analyses
    upc, job_analysed, file_contents, resumes_data, batch_start, resume_task, processing_status, resume_analyses,
    \* completing an interview session: the path and position of each request, the session's status, the rows of interview_results
    completion_path, completion_pc, session_status, interview_results,
    \* HybridStore.create_job: the position of each request, the jobs in memory, the rows of job_posts, what each request returned
    jpc, memory_jobs, job_posts, job_created,
    \* create_job_interview_setup: the job's rows, the request and its reply
    setup_pc, interview_setup, configurations, config_index, setup_reply, active_before, job_data_found

distVars == <<dpc, evaluation_criteria, total_questions, result>>
diffVars == <<lpc, resume_score, difficulty_level>>
parseVars == <<ppc, transcript, line_index, current_question, current_answer, qa_pairs>>
inputVars == <<interview_questions, has_question_scores, communication_score>>
loopVars == <<question_index, raw_score, max_score, domain_raw_score, domain_max_score,
              last_main_question_index, followup_counted_for_main>>
analyseVars == <<apc, inputVars, questions_data, loopVars, scorable_count, analysis>>
repairVars == <<rpc, json_str, repaired>>
batchVars == <<bpc, resumes, raises_at, fallback_raises, task_pc, completed, results, stored, batch_failed>>
decodeVars == <<cpc, content, cleaned_content, error_message>>
generateVars == <<gpc, generation_input, question_distribution, llm_calls, response, generated>>
gateVars == <<rate_limiter, calls>>
poolVars == <<qpc, pool_criteria, pool_distribution, pool_position, llm_requests, question_pool,
              pool_number_of_questions, total_base_questions, adaptive_config>>
resumeVars == <<zpc, llm_response, repair_step_raises, cleaned_response, repaired_json, returned_analysis>>
backgroundVars == <<upc, job_analysed, file_contents, resumes_data, batch_start, resume_task, processing_status, resume_analyses>>
completionVars == <<completion_path, completion_pc, session_status, interview_results>>
createJobVars == <<jpc, memory_jobs, job_posts, job_created>>
setupVars == <<setup_pc, interview_setup, configurations, config_index, setup_reply, active_before, job_data_found>>
vars == <<distVars, diffVars, parseVars, analyseVars, repairVars, batchVars, decodeVars, generateVars, gateVars, poolVars, resumeVars, backgroundVars, completionVars, createJobVars, setupVars>>

\* What an operation of one component leaves alone: the other components.
exceptDist == <<diffVars, parseVars, analyseVars, repairVars, batchVars, decodeVars, generateVars, gateVars, poolVars, resumeVars, backgroundVars, completionVars, createJobVars, setupVars>>
exceptDiff == <<distVars, parseVars, analyseVars, repairVars, batchVars, decodeVars, generateVars, gateVars, poolVars, resumeVars, backgroundVars, completionVars, createJobVars, setupVars>>
exceptParse == <<distVars, diffVars, analyseVars, repairVars, batchVars, decodeVars, generateVars, gateVars, poolVars, resumeVars, backgroundVars, completionVars, createJobVars, setupVars>>
exceptAnalyse == <<distVars, diffVars, parseVars, repairVars, batchVars, decodeVars, generateVars, gateVars, poolVars, resumeVars, backgroundVars, completionVars, createJobVars, setupVars>>
exceptRepair == <<distVars, diffVars, parseVars, analyseVars, batchVars, decodeVars, generateVars, gateVars, poolVars, resumeVars, backgroundVars, completionVars, createJobVars, setupVars>>
exceptBatch == <<distVars, diffVars, parseVars, analyseVars, repairVars, decodeVars, generateVars, gateVars, poolVars, resumeVars, backgroundVars, completionVars, createJobVars, setupVars>>
exceptDecode == <<distVars, diffVars, parseVars, analyseVars, repairVars, batchVars, generateVars, gateVars, poolVars, resumeVars, backgroundVars, completionVars, createJobVars, setupVars>>
exceptGenerate == <<distVars, diffVars, parseVars, analyseVars, repairVars, batchVars, decodeVars, gateVars, poolVars, resumeVars, backgroundVars, completionVars, createJobVars, setupVars>>
exceptGate == <<distVars, diffVars, parseVars, analyseVars, repairVars, batchVars, decodeVars, generateVars, poolVars, resumeVars, backgroundVars, completionVars, createJobVars, setupVars>>
exceptPool == <<distVars, diffVars, parseVars, analyseVars, repairVars, batchVars, decodeVars, generateVars, gateVars, resumeVars, backgroundVars, completionVars, createJobVars, setupVars>>
exceptResume == <<distVars, diffVars, parseVars, analyseVars, repairVars, batchVars, decodeVars, generateVars, gateVars, poolVars, backgroundVars, completionVars, createJobVars, setupVars>>
exceptBackground == <<distVars, diffVars, parseVars, analyseVars, repairVars, batchVars, decodeVars, generateVars, gateVars, poolVars, resumeVars, completionVars, createJobVars, setupVars>>
exceptCompletion == <<distVars, diffVars, parseVars, analyseVars, repairVars, batchVars, decodeVars, generateVars, gateVars, poolVars, resumeVars, backgroundVars, createJobVars, setupVars>>
exceptCreateJob == <<distVars, diffVars, parseVars, analyseVars, repairVars, batchVars, decodeVars, generateVars, gateVars, poolVars, resumeVars, backgroundVars, completionVars, setupVars>>
exceptSetup == <<distVars, diffVars, parseVars, analyseVars, repairVars, batchVars, decodeVars, generateVars, gateVars, poolVars, resumeVars, backgroundVars, completionVars, createJobVars>>

None == "None"

-----------------------------------------------------------------------------
(* Arithmetic helpers *)

\* Python round(n/d) for d > 0: nearest integer, ties to the even one.
RoundHalfEven(n, d) ==
    LET q == n \div d
        r == n % d
    IN  IF 2 * r < d THEN q
        ELSE IF 2 * r > d THEN q + 1
        ELSE IF q % 2 = 0 THEN q ELSE q + 1

\* Python int(n/d) for d > 0: truncation toward zero.
Trunc(n, d) == IF n >= 0 THEN n \div d ELSE -((-n) \div d)

RECURSIVE SumOver(_, _)
SumOver(f, S) ==
    IF S = {} THEN 0
    ELSE LET x == CHOOSE y \in S : TRUE IN f[x] + SumOver(f, S \ {x})

-----------------------------------------------------------------------------
(* InterviewQuestionGenerator._distribute_questions *)

MaxTotal == 8
Pcts == {0, 10, 20, 30, 40, 50, 100}

\* Declaration order of the four categories.
Categories == <<"screening", "domain", "behavioral", "communication">>
CategorySet == {Categories[k] : k \in 1..Len(Categories)}

Total(counts) == SumOver(counts, CategorySet)

\* round(pct / 100 * total) if pct > 0 else 0
InitialCounts(criteria, total) ==
    [c \in CategorySet |->
        IF criteria[c] > 0 THEN RoundHalfEven(criteria[c] * total, 100) ELSE 0]

\* if total_allocated == 0: the first of screening, domain, behavioral with a
\* positive percentage takes every question, else screening does.
ZeroAllocationFallback(criteria, total, counts) ==
    IF Total(counts) # 0 THEN counts
    ELSE IF criteria["screening"] > 0 THEN [counts EXCEPT !["screening"] = total]
    ELSE IF criteria["domain"] > 0 THEN [counts EXCEPT !["domain"] = total]
    ELSE IF criteria["behavioral"] > 0 THEN [counts EXCEPT !["behavioral"] = total]
    ELSE [counts EXCEPT !["screening"] = total]

\* list.sort(key=..., reverse=True) of the categories that satisfy keep: a stable
\* sort, so equal keys stay in declaration order.
RECURSIVE InsertDesc(_, _, _)
InsertDesc(sorted, c, key) ==
    IF sorted = <<>> THEN <<c>>
    ELSE IF key[Head(sorted)] >= key[c] THEN <<Head(sorted)>> \o InsertDesc(Tail(sorted), c, key)
    ELSE <<c>> \o sorted

RECURSIVE SortDescFrom(_, _, _, _)
SortDescFrom(k, keep, key, acc) ==
    IF k > Len(Categories) THEN acc
    ELSE SortDescFrom(k + 1, keep, key,
            IF Categories[k] \in keep THEN InsertDesc(acc, Categories[k], key) ELSE acc)

SortedCategories(keep, key) == SortDescFrom(1, keep, key, <<>>)

\* for i in range(excess): take one question from categories_to_reduce[i % len]
\* when that category still has one.
RECURSIVE ReduceLoop(_, _, _, _)
ReduceLoop(counts, order, i, excess) ==
    IF i >= excess \/ order = <<>> THEN counts
    ELSE LET c == order[(i % Len(order)) + 1]
         IN  ReduceLoop(IF counts[c] > 0 THEN [counts EXCEPT ![c] = @ - 1] ELSE counts,
                        order, i + 1, excess)

\* Mutant: every step of the loop gives two questions instead of one.
RECURSIVE AddLoop_TwoAtATime(_, _, _, _)
AddLoop_TwoAtATime(counts, order, i, remaining) ==
    IF i >= remaining \/ order = <<>> THEN counts
    ELSE LET c == order[(i % Len(order)) + 1]
         IN  AddLoop_TwoAtATime([counts EXCEPT ![c] = @ + 2], order, i + 1, remaining)

\* for i in range(remaining): give one question to categories_to_add[i % len]
RECURSIVE AddLoop(_, _, _, _)
AddLoop(counts, order, i, remaining) ==
    IF i >= remaining \/ order = <<>> THEN counts
    ELSE LET c == order[(i % Len(order)) + 1]
         IN  AddLoop([counts EXCEPT ![c] = @ + 1], order, i + 1, remaining)

Reconcile(criteria, total, counts) ==
    LET allocated == Total(counts)
    IN  IF allocated > total
        THEN ReduceLoop(counts,
                        SortedCategories({c \in CategorySet : counts[c] > 0}, counts),
                        0, allocated - total)
        ELSE IF allocated < total
        THEN AddLoop(counts,
                     SortedCategories({c \in CategorySet : criteria[c] > 0}, criteria),
                     0, total - allocated)
        ELSE counts

distribute_questions(criteria, total) ==
    Reconcile(criteria, total,
              ZeroAllocationFallback(criteria, total, InitialCounts(criteria, total)))

\* Criteria of 30/30/20/20.
ExampleCriteria ==
    [c \in CategorySet |-> IF c \in {"screening", "domain"} THEN 30 ELSE 20]

DistIdle ==
    /\ dpc = "idle"
    /\ evaluation_criteria = None
    /\ total_questions = 0
    /\ result = None

DistInit ==
    /\ dpc = "call"
    /\ evaluation_criteria \in [CategorySet -> Pcts]
    /\ total_questions \in 1..MaxTotal
    /\ result = None

Distribute ==
    /\ dpc = "call"
    /\ result' = distribute_questions(evaluation_criteria, total_questions)
    /\ dpc' = "done"
    /\ UNCHANGED <<evaluation_criteria, total_questions>>
    /\ UNCHANGED exceptDist

-----------------------------------------------------------------------------
(* InterviewQuestionGenerator.determine_difficulty_level *)

MaxResumeScore == 100

\* Mutant: the boundaries excluded from the lower tiers.
determine_difficulty_level_strict(score) ==
    IF score < 60 THEN "easy"
    ELSE IF score < 70 THEN "medium"
    ELSE "very_hard"

determine_difficulty_level(score) ==
    IF score <= 60 THEN "easy"
    ELSE IF score <= 70 THEN "medium"
    ELSE "very_hard"

DiffIdle ==
    /\ lpc = "idle"
    /\ resume_score = 0
    /\ difficulty_level = None

DiffInit ==
    /\ lpc = "call"
    /\ resume_score \in 0..MaxResumeScore
    /\ difficulty_level = None

DetermineDifficulty ==
    /\ lpc = "call"
    /\ difficulty_level' = determine_difficulty_level(resume_score)
    /\ lpc' = "done"
    /\ UNCHANGED resume_score
    /\ UNCHANGED exceptDiff

-----------------------------------------------------------------------------
(* Text helpers *)

Blank == " "
NewLine == "\n"

\* str.strip(): leading and trailing blanks removed.
RECURSIVE LStrip(_)
LStrip(t) == IF t # <<>> /\ Head(t) = Blank THEN LStrip(Tail(t)) ELSE t

RECURSIVE RStrip(_)
RStrip(t) ==
    IF t # <<>> /\ t[Len(t)] = Blank THEN RStrip(SubSeq(t, 1, Len(t) - 1)) ELSE t

Strip(t) == RStrip(LStrip(t))

\* str.split('\n'): the pieces between line breaks, empty pieces kept.
RECURSIVE SplitFrom(_, _, _)
SplitFrom(t, piece, acc) ==
    IF t = <<>> THEN Append(acc, piece)
    ELSE IF Head(t) = NewLine THEN SplitFrom(Tail(t), <<>>, Append(acc, piece))
    ELSE SplitFrom(Tail(t), Append(piece, Head(t)), acc)

SplitLines(t) == SplitFrom(t, <<>>, <<>>)

\* ' '.join(parts)
RECURSIVE JoinBlank(_)
JoinBlank(parts) ==
    IF parts = <<>> THEN <<>>
    ELSE IF Len(parts) = 1 THEN parts[1]
    ELSE parts[1] \o <<Blank>> \o JoinBlank(Tail(parts))

\* needle in hay
Contains(hay, needle) ==
    \E k \in 0..(Len(hay) - Len(needle)) :
        SubSeq(hay, k + 1, k + Len(needle)) = needle

-----------------------------------------------------------------------------
(* InterviewAnalyzer._parse_transcript_qa_pairs *)

MaxTranscriptLen == 5

QuestionPrefixes == {"AI:", "AGENT:", "INTERVIEWER:"}
AnswerPrefixes == {"USER:", "CANDIDATE:", "YOU:"}
TranscriptTokens == QuestionPrefixes \cup AnswerPrefixes \cup {Blank, NewLine, "w"}

Transcripts ==
    UNION {[1..n -> TranscriptTokens] : n \in 0..MaxTranscriptLen}

\* line.startswith((...)) on a stripped line
StartsWith(line, prefixes) == line # <<>> /\ Head(line) \in prefixes

\* line.split(':', 1)[1].strip() of a line that starts with a speaker prefix
AfterPrefix(line) == Strip(Tail(line))

\* current_question is None (<<>>) or a str (<<text>>); "if current_question:"
\* is false for None and for the empty str.
Truthy(question) == question # <<>> /\ question[1] # <<>>

\* {"question": current_question, "answer": ' '.join(current_answer).strip() ...}
PendingPair(question, answer) ==
    [question |-> question[1],
     answer |-> IF answer # <<>> THEN Strip(JoinBlank(answer)) ELSE <<>>]

ParseIdle ==
    /\ ppc = "idle"
    /\ transcript = <<>>
    /\ line_index = 0
    /\ current_question = <<>>
    /\ current_answer = <<>>
    /\ qa_pairs = <<>>

ParseInit ==
    /\ ppc = "loop"
    /\ transcript \in Transcripts
    /\ line_index = 1
    /\ current_question = <<>>
    /\ current_answer = <<>>
    /\ qa_pairs = <<>>

\* One iteration of "for line in lines".
ParseLine ==
    /\ ppc = "loop"
    /\ line_index <= Len(SplitLines(transcript))
    /\ LET line == Strip(SplitLines(transcript)[line_index])
       IN  IF line = <<>>
           THEN UNCHANGED <<current_question, current_answer, qa_pairs>>
           ELSE IF StartsWith(line, QuestionPrefixes)
           THEN /\ qa_pairs' = IF Truthy(current_question)
                               THEN Append(qa_pairs, PendingPair(current_question, current_answer))
                               ELSE qa_pairs
                /\ current_question' = <<AfterPrefix(line)>>
                /\ current_answer' = <<>>
           ELSE IF StartsWith(line, AnswerPrefixes)
           THEN /\ current_answer' = Append(current_answer, AfterPrefix(line))
                /\ UNCHANGED <<current_question, qa_pairs>>
           ELSE IF current_answer # <<>>
           THEN /\ current_answer' = Append(current_answer, line)
                /\ UNCHANGED <<current_question, qa_pairs>>
           ELSE UNCHANGED <<current_question, current_answer, qa_pairs>>
    /\ line_index' = line_index + 1
    /\ UNCHANGED <<ppc, transcript>>
    /\ UNCHANGED exceptParse

\* After the loop: the last pending pair, then return qa_pairs.
ParseReturn ==
    /\ ppc = "loop"
    /\ line_index > Len(SplitLines(transcript))
    /\ qa_pairs' = IF Truthy(current_question)
                   THEN Append(qa_pairs, PendingPair(current_question, current_answer))
                   ELSE qa_pairs
    /\ ppc' = "done"
    /\ UNCHANGED <<transcript, line_index, current_question, current_answer>>
    /\ UNCHANGED exceptParse

-----------------------------------------------------------------------------
(* InterviewAnalyzer: the string classifiers *)

\* str.lower() of one token; tokens written in lower case are their own image.
LowerToken(t) ==
    CASE t = "Hello" -> "hello"
      [] t = "Explain" -> "explain"
      [] t = "Describe your role" -> "describe your role"
      [] t = "Can you elaborate" -> "can you elaborate"
      [] t = "Tell me more" -> "tell me more"
      [] t = "I don't know" -> "i don't know"
      [] t = "Hard" -> "hard"
      [] OTHER -> t

Lower(text) == [k \in 1..Len(text) |-> LowerToken(text[k])]

\* any(pattern in text for pattern in patterns): a pattern is one token.
AnyPatternIn(patterns, text) == \E k \in 1..Len(text) : text[k] \in patterns

greeting_patterns ==
    {"hello", "welcome", "i'm excited to learn", "are you ready to begin",
     "ready to start", "shall we begin", "let's get started", "nice to meet you",
     "good morning", "good afternoon", "good evening", "how are you today",
     "thank you for joining"}

is_greeting_question(question) == AnyPatternIn(greeting_patterns, Lower(question))

followup_patterns ==
    {"can you elaborate", "could you elaborate", "please elaborate", "tell me more",
     "can you explain more", "give an example", "provide an example",
     "can you give me an example", "could you provide more details",
     "can you be more specific", "anything else", "what else", "continue", "go on",
     "please continue"}

is_followup_question(question) == AnyPatternIn(followup_patterns, Lower(question))

skip_patterns ==
    {"i don't know", "i dont know", "not sure", "can't answer", "cannot answer",
     "skip", "pass", "no idea", "i'm not familiar", "im not familiar", "i haven't",
     "i havent", "unable to answer"}

is_skipped_answer(answer) ==
    \/ answer = <<>>
    \/ Strip(answer) = <<>>
    \/ AnyPatternIn(skip_patterns, Strip(Lower(answer)))

\* multipliers.get(difficulty.lower(), 1.0), in tenths
get_difficulty_multiplier(difficulty) ==
    LET d == LowerToken(difficulty)
    IN  CASE d = "easy" -> 10
          [] d = "medium" -> 12
          [] d = "hard" -> 15
          [] d = "very_hard" -> 15
          [] OTHER -> 10

-----------------------------------------------------------------------------
(* InterviewAnalyzer.analyse: the inputs *)

MaxRichQuestions == 3
MaxQuestions == 8

total_expected_questions == 7
medium_multiplier == 12

\* One entry of question_scores.questions as the LLM returns it.  The keys the
\* weighting pass adds later are absent: excluded_from_scoring reads False
\* (q.get), difficulty is None, the two numbers are 0.
LlmQuestion(question, answer, score, domain, followup, initial) ==
    [question |-> question,
     answer |-> answer,
     score |-> score,
     is_domain_question |-> domain,
     is_followup_question |-> followup,
     is_initial_question |-> initial,
     is_greeting |-> FALSE,
     excluded_from_scoring |-> FALSE,
     exclusion_reason |-> None,
     replaces_main_question |-> FALSE,
     difficulty |-> None,
     difficulty_multiplier |-> 0,
     weighted_score |-> 0,
     is_abandoned |-> FALSE]

QGreeting == <<"Hello", "are you ready to begin">>
QHard == <<"Explain", "database indexes">>
QEasy == <<"so", "Describe your role">>
QUnknown == <<"what motivates you">>
QFollowup == <<"Can you elaborate", "on that">>
QFollowupEasy == <<"Can you elaborate", "Describe your role">>

AGood == <<"indexes speed up lookups">>
ASkip == <<"honestly", "I don't know">>
ABlank == <<Blank>>

\* The question set the caller passes (interview_questions), in list order.
KnownQuestions ==
    << [question |-> <<"Explain", "database indexes", "in detail">>, difficulty |-> "Hard"],
       [question |-> <<"Describe your role">>, difficulty |-> "easy"] >>

GreetingEntry == LlmQuestion(QGreeting, AGood, 0, FALSE, FALSE, TRUE)
MainEntry == LlmQuestion(QHard, AGood, 4, TRUE, FALSE, FALSE)
FollowupEntry == LlmQuestion(QFollowup, AGood, 2, TRUE, TRUE, FALSE)

\* What the LLM may return for one question.
RichCatalogue ==
    {GreetingEntry, MainEntry, FollowupEntry,
     LlmQuestion(QHard, ASkip, 3, TRUE, FALSE, FALSE),
     LlmQuestion(QEasy, AGood, 5, FALSE, FALSE, FALSE),
     LlmQuestion(QUnknown, <<>>, 2, TRUE, FALSE, FALSE),
     LlmQuestion(QUnknown, ABlank, 0, FALSE, TRUE, TRUE),
     LlmQuestion(QUnknown, AGood, 9, TRUE, FALSE, FALSE),
     LlmQuestion(QFollowupEasy, AGood, 3, TRUE, TRUE, FALSE)}

LongCatalogue == {MainEntry, FollowupEntry}

Responses ==
    UNION {[1..n -> RichCatalogue] : n \in 0..MaxRichQuestions}
    \cup UNION {[1..n -> LongCatalogue] : n \in 0..MaxQuestions}

\* analysis["communication_score"] as the LLM returns it: absent (<<>>) or <<n>>.
CommunicationScores == {<<>>, <<-10>>, <<55>>, <<120>>}

AnalysisUnset ==
    [scored |-> FALSE, raw_domain_score |-> 0, max_domain_score |-> 0,
     normalized_domain_score |-> 0, overall_score |-> 0, domain_score |-> 0,
     scorable_questions_count |-> 0, raw_score |-> 0, max_score |-> 0,
     normalized_score |-> 0]

AnalyseIdle ==
    /\ apc = "idle"
    /\ interview_questions = <<>>
    /\ has_question_scores = FALSE
    /\ questions_data = <<>>
    /\ communication_score = <<>>
    /\ question_index = 0
    /\ raw_score = 0
    /\ max_score = 0
    /\ domain_raw_score = 0
    /\ domain_max_score = 0
    /\ last_main_question_index = 0
    /\ followup_counted_for_main = {}
    /\ scorable_count = 0
    /\ analysis = AnalysisUnset

\* The state after json.loads(cleaned_content) succeeded.
AnalyseInit ==
    /\ apc = "decoded"
    /\ interview_questions \in {<<>>, KnownQuestions}
    /\ has_question_scores \in BOOLEAN
    /\ questions_data \in Responses
    /\ has_question_scores \/ questions_data = <<>>
    /\ communication_score \in CommunicationScores
    /\ question_index = 0
    /\ raw_score = 0
    /\ max_score = 0
    /\ domain_raw_score = 0
    /\ domain_max_score = 0
    /\ last_main_question_index = 0
    /\ followup_counted_for_main = {}
    /\ scorable_count = 0
    /\ analysis = AnalysisUnset

-----------------------------------------------------------------------------
(* InterviewAnalyzer.analyse: the weighting pass *)

\* if "question_scores" in analysis and interview_questions:
WeightingGuard == has_question_scores /\ interview_questions # <<>>

\* The guard holds: the accumulators are set up and the loop starts.
\* Indices are 1-based here; last_main_question_index = 0 is Python's -1.
BeginWeighting ==
    /\ apc = "decoded"
    /\ WeightingGuard
    /\ apc' = "loop"
    /\ question_index' = 1
    /\ raw_score' = 0
    /\ max_score' = 0
    /\ domain_raw_score' = 0
    /\ domain_max_score' = 0
    /\ last_main_question_index' = 0
    /\ followup_counted_for_main' = {}
    /\ UNCHANGED <<inputVars, questions_data, scorable_count, analysis>>
    /\ UNCHANGED exceptAnalyse

\* The guard fails: the decoded analysis is returned as the LLM wrote it.
SkipWeighting ==
    /\ apc = "decoded"
    /\ ~WeightingGuard
    /\ apc' = "done"
    /\ UNCHANGED <<inputVars, questions_data, loopVars, scorable_count, analysis>>
    /\ UNCHANGED exceptAnalyse

\* question_difficulty_map, then the first orig_q with
\* "orig_q in question_lower or question_lower in orig_q"; "medium" if none.
RECURSIVE LookupFrom(_, _, _)
LookupFrom(known, k, question_lower) ==
    IF k > Len(known) THEN "medium"
    ELSE LET orig_q == Lower(known[k].question)
         IN  IF Contains(question_lower, orig_q) \/ Contains(orig_q, question_lower)
             THEN known[k].difficulty
             ELSE LookupFrom(known, k + 1, question_lower)

LookupDifficulty(known, question) == LookupFrom(known, 1, Lower(question))

\* Mutant: the first question classified by its text like any other.
IsFollowupAt_ByTextOnly(i, question) == is_followup_question(question)

\* The first question is never a follow-up; a later one is by its text.
IsFollowupAt(i, question) == IF i = 1 THEN FALSE ELSE is_followup_question(question)

\* The flags every iteration writes before it decides anything.
Flagged(i, q) ==
    [q EXCEPT !.is_greeting = is_greeting_question(q.question),
              !.is_followup_question = IsFollowupAt(i, q.question),
              !.is_initial_question = (i = 1)]

\* Mutant: the reason is recorded but the question is not marked excluded.
Excluded_NotMarked(q, reason) == [q EXCEPT !.exclusion_reason = reason]

Excluded(q, reason) ==
    [q EXCEPT !.excluded_from_scoring = TRUE, !.exclusion_reason = reason]

\* The tail of an iteration: difficulty, multiplier and weighted score of q.
Weighted(q, difficulty) ==
    [q EXCEPT !.difficulty = difficulty,
              !.difficulty_multiplier = get_difficulty_multiplier(difficulty),
              !.weighted_score = q.score * get_difficulty_multiplier(difficulty)]

\* Mutant: a main question never counts as already followed up.
FollowupAlreadyCounted_Never(main, counted) == FALSE

\* if last_main_question_index in followup_counted_for_main
FollowupAlreadyCounted(main, counted) == main \in counted

\* Mutant: a follow-up keeps the difficulty found for its own text.
QuestionDifficulty_OwnText(replaces, main_q, matched) == matched

\* The difficulty matched for the question's text, unless the question is a
\* follow-up of a main question that has a difficulty: then that one.
QuestionDifficulty(replaces, main_q, matched) ==
    IF replaces /\ main_q.difficulty # None THEN main_q.difficulty ELSE matched

\* One iteration of "for i, q in enumerate(questions_data)".
WeighQuestion ==
    /\ apc = "loop"
    /\ question_index <= Len(questions_data)
    /\ LET i == question_index
           q == Flagged(i, questions_data[i])
           is_followup == IsFollowupAt(i, q.question)
           main == IF is_followup THEN last_main_question_index ELSE i
           replaces == is_followup /\ main # 0
       IN  IF q.is_greeting
           THEN /\ questions_data' = [questions_data EXCEPT ![i] =
                        Excluded(q, "Greeting/welcome message, not an interview question")]
                /\ UNCHANGED <<raw_score, max_score, domain_raw_score, domain_max_score,
                               last_main_question_index, followup_counted_for_main>>
           ELSE IF replaces /\ FollowupAlreadyCounted(main, followup_counted_for_main)
           THEN /\ questions_data' = [questions_data EXCEPT ![i] =
                        Excluded(q, "Already scored one follow-up for this main question")]
                /\ last_main_question_index' = main
                /\ UNCHANGED <<raw_score, max_score, domain_raw_score, domain_max_score,
                               followup_counted_for_main>>
           ELSE LET difficulty ==
                        QuestionDifficulty(replaces, questions_data[main],
                                           LookupDifficulty(interview_questions, q.question))
                    scored == Weighted(IF replaces
                                       THEN [q EXCEPT !.excluded_from_scoring = FALSE,
                                                      !.replaces_main_question = TRUE]
                                       ELSE q,
                                       difficulty)
                IN  /\ questions_data' =
                        IF replaces
                        THEN [questions_data EXCEPT
                                ![main] = Excluded(@, "Score replaced by follow-up question"),
                                ![i] = scored]
                        ELSE [questions_data EXCEPT ![i] = scored]
                    /\ last_main_question_index' = main
                    /\ followup_counted_for_main' =
                        IF replaces THEN followup_counted_for_main \cup {main}
                        ELSE followup_counted_for_main
                    /\ raw_score' = raw_score + scored.weighted_score
                    /\ max_score' = max_score + 5 * scored.difficulty_multiplier
                    /\ domain_raw_score' =
                        IF q.is_domain_question THEN domain_raw_score + scored.weighted_score
                        ELSE domain_raw_score
                    /\ domain_max_score' =
                        IF q.is_domain_question
                        THEN domain_max_score + 5 * scored.difficulty_multiplier
                        ELSE domain_max_score
    /\ question_index' = question_index + 1
    /\ UNCHANGED <<apc, inputVars, scorable_count, analysis>>
    /\ UNCHANGED exceptAnalyse

\* [q for q in questions_data if not q.get("excluded_from_scoring", False)]
Scorable(questions) == {k \in 1..Len(questions) : ~questions[k].excluded_from_scoring}

AbandonedQuestion ==
    [question |-> <<"[Question - Not Asked Due to Interview Ending]">>,
     answer |-> <<"[Interview Ended]">>,
     score |-> 0,
     is_domain_question |-> TRUE,
     is_followup_question |-> FALSE,
     is_initial_question |-> FALSE,
     is_greeting |-> FALSE,
     excluded_from_scoring |-> FALSE,
     exclusion_reason |-> None,
     replaces_main_question |-> FALSE,
     difficulty |-> "medium",
     difficulty_multiplier |-> medium_multiplier,
     weighted_score |-> 0,
     is_abandoned |-> TRUE]

\* Mutant: the questions asked counted with the excluded ones.
Compensate_CountsExcluded ==
    /\ apc = "loop"
    /\ question_index > Len(questions_data)
    /\ LET questions_asked == Len(questions_data)
           remaining_questions == total_expected_questions - questions_asked
       IN  /\ scorable_count' = questions_asked
           /\ IF questions_asked < total_expected_questions
              THEN /\ max_score' = max_score + remaining_questions * 5 * medium_multiplier
                   /\ questions_data' = questions_data \o
                        [k \in 1..remaining_questions |-> AbandonedQuestion]
                   /\ domain_max_score' =
                        domain_max_score + remaining_questions * 5 * medium_multiplier
              ELSE UNCHANGED <<max_score, questions_data, domain_max_score>>
    /\ apc' = "normalize"
    /\ UNCHANGED <<inputVars, question_index, raw_score, domain_raw_score,
                   last_main_question_index, followup_counted_for_main, analysis>>
    /\ UNCHANGED exceptAnalyse

\* After the loop: the scorable questions are counted and an interview that
\* ended early gets its missing questions added to the maximum.
Compensate ==
    /\ apc = "loop"
    /\ question_index > Len(questions_data)
    /\ LET questions_asked == Cardinality(Scorable(questions_data))
           remaining_questions == total_expected_questions - questions_asked
       IN  /\ scorable_count' = questions_asked
           /\ IF questions_asked < total_expected_questions
              THEN /\ max_score' = max_score + remaining_questions * 5 * medium_multiplier
                   /\ questions_data' = questions_data \o
                        [k \in 1..remaining_questions |-> AbandonedQuestion]
                   /\ domain_max_score' =
                        domain_max_score + remaining_questions * 5 * medium_multiplier
              ELSE UNCHANGED <<max_score, questions_data, domain_max_score>>
    /\ apc' = "normalize"
    /\ UNCHANGED <<inputVars, question_index, raw_score, domain_raw_score,
                   last_main_question_index, followup_counted_for_main, analysis>>
    /\ UNCHANGED exceptAnalyse

\* analysis.get("communication_score", 50)
CommunicationUsed(score) == IF score = <<>> THEN 50 ELSE score[1]

\* round(raw / max * 100, 2) in hundredths; 0 when max is 0
NormalizedHundredths(raw, max) ==
    IF max > 0 THEN RoundHalfEven(raw * 10000, max) ELSE 0

\* int(normalized_domain_score * 0.8 + communication_score * 0.2), with
\* normalized_domain_score = domain_raw / domain_max * 100 (0 when the maximum is 0)
OverallScore(domain_raw, domain_max, communication) ==
    IF domain_max > 0
    THEN Trunc(400 * domain_raw + communication * domain_max, 5 * domain_max)
    ELSE Trunc(communication, 5)

\* int(normalized_domain_score)
DomainScore(domain_raw, domain_max) ==
    IF domain_max > 0 THEN Trunc(100 * domain_raw, domain_max) ELSE 0

\* The normalized scores are computed and stored, and analyse returns.
\* Scores are stored in tenths, normalized scores in hundredths.
StoreScores ==
    /\ apc = "normalize"
    /\ analysis' =
        [scored |-> TRUE,
         raw_domain_score |-> domain_raw_score,
         max_domain_score |-> domain_max_score,
         normalized_domain_score |-> NormalizedHundredths(domain_raw_score, domain_max_score),
         overall_score |-> OverallScore(domain_raw_score, domain_max_score,
                                        CommunicationUsed(communication_score)),
         domain_score |-> DomainScore(domain_raw_score, domain_max_score),
         scorable_questions_count |-> scorable_count,
         raw_score |-> raw_score,
         max_score |-> max_score,
         normalized_score |-> NormalizedHundredths(raw_score, max_score)]
    /\ apc' = "done"
    /\ UNCHANGED <<inputVars, questions_data, loopVars, scorable_count>>
    /\ UNCHANGED exceptAnalyse

-----------------------------------------------------------------------------
(* ResumeAnalyzer._repair_json *)

\* In this part a str is a sequence of characters; the three backquotes of a
\* markdown fence are one token.
Quote == "\""
Backslash == "\\"
Fence == "fence"
Letters == {"a", "b", "x"}
Digits == {"1", "2", "3"}

IsSpace(c) == c \in {Blank, NewLine}

\* str.strip() / lstrip / rstrip on text that may hold line breaks
RECURSIVE LStripWs(_)
LStripWs(s) == IF s # <<>> /\ IsSpace(Head(s)) THEN LStripWs(Tail(s)) ELSE s

RECURSIVE RStripWs(_)
RStripWs(s) ==
    IF s # <<>> /\ IsSpace(s[Len(s)]) THEN RStripWs(SubSeq(s, 1, Len(s) - 1)) ELSE s

StripWs(s) == RStripWs(LStripWs(s))

\* '\n'.join(lines)
RECURSIVE JoinLines(_)
JoinLines(lines) ==
    IF lines = <<>> THEN <<>>
    ELSE IF Len(lines) = 1 THEN lines[1]
    ELSE lines[1] \o <<NewLine>> \o JoinLines(Tail(lines))

\* The end of a regex "\s*" that starts at i: the first index at or after i
\* that holds no whitespace (Len(s) + 1 when there is none).
RECURSIVE SkipSpace(_, _)
SkipSpace(s, i) == IF i <= Len(s) /\ IsSpace(s[i]) THEN SkipSpace(s, i + 1) ELSE i

\* The first quote at or after i; 0 when there is none.
RECURSIVE NextQuote(_, _)
NextQuote(s, i) ==
    IF i > Len(s) THEN 0 ELSE IF s[i] = Quote THEN i ELSE NextQuote(s, i + 1)

CountOf(s, c) == Cardinality({k \in 1..Len(s) : s[k] = c})

\* str.rfind(c), 1-based; 0 when c does not occur
LastIndexOf(s, c) ==
    LET at == {k \in 1..Len(s) : s[k] = c}
    IN  IF at = {} THEN 0 ELSE CHOOSE k \in at : \A l \in at : l <= k

EndsWith(s, suffix) ==
    Len(s) >= Len(suffix) /\ SubSeq(s, Len(s) - Len(suffix) + 1, Len(s)) = suffix

\* if repaired starts with a fence: keep the lines from the first one that
\* starts with '{' to the last one that ends with '}'.
StripFence(s) ==
    IF s # <<>> /\ Head(s) = Fence
    THEN LET lines == SplitLines(s)
             starts == {k \in 1..Len(lines) :
                          LET l == StripWs(lines[k]) IN l # <<>> /\ Head(l) = "{"}
             ends == {k \in 1..Len(lines) :
                          LET l == StripWs(lines[k]) IN l # <<>> /\ l[Len(l)] = "}"}
             start_idx == IF starts = {} THEN 1
                          ELSE CHOOSE k \in starts : \A l \in starts : k <= l
             end_idx == IF ends = {} THEN Len(lines)
                        ELSE CHOOSE k \in ends : \A l \in ends : l <= k
         IN  JoinLines(SubSeq(lines, start_idx, end_idx))
    ELSE s

\* 1. re.sub(r',(\s*[}\]])', r'\1', repaired)
RECURSIVE RemoveTrailingCommasFrom(_, _)
RemoveTrailingCommasFrom(s, i) ==
    IF i > Len(s) THEN <<>>
    ELSE LET j == SkipSpace(s, i + 1)
         IN  IF s[i] = "," /\ j <= Len(s) /\ s[j] \in {"}", "]"}
             THEN SubSeq(s, i + 1, j) \o RemoveTrailingCommasFrom(s, j + 1)
             ELSE <<s[i]>> \o RemoveTrailingCommasFrom(s, i + 1)

RemoveTrailingCommas(s) == RemoveTrailingCommasFrom(s, 1)

\* 2. re.sub(r'"([^"]*)"([^"]*)"([^"]*)"', r'"\1\\"2\\"\3"', repaired):
\* every four successive quotes are one match; the replacement keeps groups
\* 1 and 3 and writes the characters \"2\" where the second and third quote
\* and group 2 were.
RECURSIVE EscapeInnerQuotesFrom(_, _)
EscapeInnerQuotesFrom(s, i) ==
    LET q1 == NextQuote(s, i)
        q2 == IF q1 = 0 THEN 0 ELSE NextQuote(s, q1 + 1)
        q3 == IF q2 = 0 THEN 0 ELSE NextQuote(s, q2 + 1)
        q4 == IF q3 = 0 THEN 0 ELSE NextQuote(s, q3 + 1)
    IN  IF q4 = 0 THEN SubSeq(s, i, Len(s))
        ELSE SubSeq(s, i, q1 - 1)
             \o <<Quote>> \o SubSeq(s, q1 + 1, q2 - 1)
             \o <<Backslash, Quote, "2", Backslash, Quote>>
             \o SubSeq(s, q3 + 1, q4 - 1) \o <<Quote>>
             \o EscapeInnerQuotesFrom(s, q4 + 1)

EscapeInnerQuotes(s) == EscapeInnerQuotesFrom(s, 1)

\* 3. An odd number of quotes: the text after the last quote is cut to its
\* first line and closed with a quote, and only the first line is kept.
CloseOpenString(s) ==
    LET last_quote_idx == LastIndexOf(s, Quote)
        after_quote == SubSeq(s, last_quote_idx + 1, Len(s))
    IN  IF /\ CountOf(s, Quote) % 2 # 0
           /\ last_quote_idx > 1
           /\ ~EndsWith(StripWs(after_quote), <<Quote>>)
           /\ ~EndsWith(StripWs(after_quote), <<Quote, "}">>)
        THEN SplitLines(SubSeq(s, 1, last_quote_idx)
                        \o StripWs(SplitLines(after_quote)[1]) \o <<Quote>>)[1]
        ELSE s

\* 4. Missing closing braces are appended, then missing closing brackets.
CloseStructures(s) ==
    LET braces == CountOf(s, "{") - CountOf(s, "}")
        brackets == CountOf(s, "[") - CountOf(s, "]")
    IN  s \o [k \in 1..braces |-> "}"] \o [k \in 1..brackets |-> "]"]

\* 5. last_valid_pos: the last '}' that brings brace_count back to 0 (1-based,
\* 0 for Python's -1).
RECURSIVE LastValidPos(_, _, _, _)
LastValidPos(s, i, brace_count, last_valid_pos) ==
    IF i > Len(s) THEN last_valid_pos
    ELSE IF s[i] = "{" THEN LastValidPos(s, i + 1, brace_count + 1, last_valid_pos)
    ELSE IF s[i] = "}"
         THEN LastValidPos(s, i + 1, brace_count - 1,
                           IF brace_count - 1 = 0 THEN i ELSE last_valid_pos)
    ELSE LastValidPos(s, i + 1, brace_count, last_valid_pos)

CutTrailingText(s) ==
    LET last_valid_pos == LastValidPos(s, 1, 0, 0)
    IN  IF last_valid_pos > 1 /\ last_valid_pos < Len(s)
        THEN SubSeq(s, 1, last_valid_pos) ELSE s

IsIdentStart(c) == c \in Letters \cup {"_"}
IsIdentChar(c) == c \in Letters \cup Digits \cup {"_"}

\* The end of a regex "[a-zA-Z0-9_]*" that starts at i.
RECURSIVE IdentEnd(_, _)
IdentEnd(s, i) == IF i <= Len(s) /\ IsIdentChar(s[i]) THEN IdentEnd(s, i + 1) ELSE i

\* 6. re.sub(r'"\s*"\s*([a-zA-Z_][a-zA-Z0-9_]*)":', r'", "\1":', repaired)
RECURSIVE InsertCommaBetweenStringsFrom(_, _)
InsertCommaBetweenStringsFrom(s, i) ==
    IF i > Len(s) THEN <<>>
    ELSE LET j == SkipSpace(s, i + 1)
             k == SkipSpace(s, j + 1)
             m == IdentEnd(s, k + 1)
         IN  IF /\ s[i] = Quote
                /\ j <= Len(s) /\ s[j] = Quote
                /\ k <= Len(s) /\ IsIdentStart(s[k])
                /\ m + 1 <= Len(s) /\ s[m] = Quote /\ s[m + 1] = ":"
             THEN <<Quote, ",", Blank, Quote>> \o SubSeq(s, k, m - 1) \o <<Quote, ":">>
                  \o InsertCommaBetweenStringsFrom(s, m + 2)
             ELSE <<s[i]>> \o InsertCommaBetweenStringsFrom(s, i + 1)

InsertCommaBetweenStrings(s) == InsertCommaBetweenStringsFrom(s, 1)

\* 7. re.sub(r'}\s*"([^"]+)":', r'}, "\1":', repaired), and the same for ']'
RECURSIVE InsertCommaAfterFrom(_, _, _)
InsertCommaAfterFrom(s, i, closer) ==
    IF i > Len(s) THEN <<>>
    ELSE LET j == SkipSpace(s, i + 1)
             q == NextQuote(s, j + 1)
         IN  IF /\ s[i] = closer
                /\ j <= Len(s) /\ s[j] = Quote
                /\ q > j + 1
                /\ q + 1 <= Len(s) /\ s[q + 1] = ":"
             THEN <<closer, ",", Blank, Quote>> \o SubSeq(s, j + 1, q - 1) \o <<Quote, ":">>
                  \o InsertCommaAfterFrom(s, q + 2, closer)
             ELSE <<s[i]>> \o InsertCommaAfterFrom(s, i + 1, closer)

InsertCommaAfter(s, closer) == InsertCommaAfterFrom(s, 1, closer)

\* _repair_json(json_str): the steps in the order of the code.
repair_json(text) ==
    InsertCommaAfter(
        InsertCommaAfter(
            InsertCommaBetweenStrings(
                CutTrailingText(
                    CloseStructures(
                        CloseOpenString(
                            EscapeInnerQuotes(
                                RemoveTrailingCommas(StripFence(StripWs(text)))))))),
            "}"),
        "]")

\* The texts given to the repair: JSON objects with one or two members whose
\* closing braces and brackets may each be preceded by a trailing comma.
String(c) == <<Quote, c, Quote>>
TrailingCommas == {<<>>, <<",">>, <<",", Blank>>}

JsonValues ==
    {<<"1">>, String("x")}
    \cup {<<"[", "1", ",", "2">> \o t \o <<"]">> : t \in TrailingCommas}
    \cup {<<"[", "1", ",", "2", ",", "3">> \o t \o <<"]">> : t \in TrailingCommas}
    \cup {<<"{">> \o String("b") \o <<":", "1">> \o t \o <<"}">> : t \in TrailingCommas}

JsonObjects ==
    {<<"{">> \o String("a") \o <<":">> \o v \o t \o <<"}">> :
        v \in JsonValues, t \in TrailingCommas}
    \cup {<<"{">> \o String("a") \o <<":">> \o v \o <<",">>
            \o String("b") \o <<":">> \o w \o t \o <<"}">> :
        v \in JsonValues, w \in JsonValues, t \in TrailingCommas}

\* Responses that need the other repairs: fenced, cut short, an open string.
BrokenTexts ==
    {<<Fence, "json", NewLine, "{">> \o String("a") \o <<":", "1", "}", NewLine, Fence>>,
     <<"{">> \o String("a") \o <<":", "[", "1", ",", "2">>,
     <<"{">> \o String("a") \o <<":", Quote, "x">>,
     <<"{">> \o String("a") \o <<":", "1", "}", Blank, "x">>}

RepairIdle ==
    /\ rpc = "idle"
    /\ json_str = <<>>
    /\ repaired = <<>>

RepairInit ==
    /\ rpc = "start"
    /\ json_str \in JsonObjects \cup BrokenTexts
    /\ repaired = <<>>

\* One call of _repair_json.
RepairJson ==
    /\ rpc = "start"
    /\ repaired' = repair_json(json_str)
    /\ rpc' = "done"
    /\ UNCHANGED json_str
    /\ UNCHANGED exceptRepair

\* json.loads(repaired) in test_json_repair.  The value parsed is represented
\* by the text without its insignificant whitespace; the texts considered hold
\* no number longer than they are written and no escape other than \" \\ \b,
\* so equal values have equal representations.
RECURSIVE StringEnd(_, _)
StringEnd(s, i) ==
    IF i > Len(s) THEN 0
    ELSE IF s[i] = Quote THEN i + 1
    ELSE IF s[i] = NewLine THEN 0
    ELSE IF s[i] = Backslash
         THEN IF i + 1 <= Len(s) /\ s[i + 1] \in {Quote, Backslash, "b"}
              THEN StringEnd(s, i + 2) ELSE 0
    ELSE StringEnd(s, i + 1)

RECURSIVE DigitsEnd(_, _)
DigitsEnd(s, i) == IF i <= Len(s) /\ s[i] \in Digits THEN DigitsEnd(s, i + 1) ELSE i

\* The index after the JSON value that starts at i (whitespace skipped), or 0.
RECURSIVE ValueEnd(_, _)
RECURSIVE MembersEnd(_, _)
RECURSIVE ItemsEnd(_, _)
ValueEnd(s, i) ==
    LET k == SkipSpace(s, i)
    IN  IF k > Len(s) THEN 0
        ELSE IF s[k] = Quote THEN StringEnd(s, k + 1)
        ELSE IF s[k] \in Digits THEN DigitsEnd(s, k)
        ELSE IF s[k] = "{"
             THEN LET n == SkipSpace(s, k + 1)
                  IN  IF n <= Len(s) /\ s[n] = "}" THEN n + 1 ELSE MembersEnd(s, n)
        ELSE IF s[k] = "["
             THEN LET n == SkipSpace(s, k + 1)
                  IN  IF n <= Len(s) /\ s[n] = "]" THEN n + 1 ELSE ItemsEnd(s, n)
        ELSE 0

MembersEnd(s, i) ==
    LET k == SkipSpace(s, i)
        e == IF k <= Len(s) /\ s[k] = Quote THEN StringEnd(s, k + 1) ELSE 0
        c == IF e = 0 THEN 0 ELSE SkipSpace(s, e)
        v == IF c # 0 /\ c <= Len(s) /\ s[c] = ":" THEN ValueEnd(s, c + 1) ELSE 0
        n == IF v = 0 THEN 0 ELSE SkipSpace(s, v)
    IN  IF n = 0 \/ n > Len(s) THEN 0
        ELSE IF s[n] = "}" THEN n + 1
        ELSE IF s[n] = "," THEN MembersEnd(s, n + 1)
        ELSE 0

ItemsEnd(s, i) ==
    LET v == ValueEnd(s, i)
        n == IF v = 0 THEN 0 ELSE SkipSpace(s, v)
    IN  IF n = 0 \/ n > Len(s) THEN 0
        ELSE IF s[n] = "]" THEN n + 1
        ELSE IF s[n] = "," THEN ItemsEnd(s, n + 1)
        ELSE 0

IsJson(s) ==
    LET e == ValueEnd(s, 1) IN e # 0 /\ SkipSpace(s, e) = Len(s) + 1

RECURSIVE CompactFrom(_, _, _)
CompactFrom(s, i, in_string) ==
    IF i > Len(s) THEN <<>>
    ELSE IF in_string /\ s[i] = Backslash /\ i < Len(s)
         THEN <<s[i], s[i + 1]>> \o CompactFrom(s, i + 2, TRUE)
    ELSE IF s[i] = Quote THEN <<s[i]>> \o CompactFrom(s, i + 1, ~in_string)
    ELSE IF ~in_string /\ IsSpace(s[i]) THEN CompactFrom(s, i + 1, FALSE)
    ELSE <<s[i]>> \o CompactFrom(s, i + 1, in_string)

JSONDecodeError == <<"JSONDecodeError">>

json_loads(s) == IF IsJson(s) THEN CompactFrom(s, 1, FALSE) ELSE JSONDecodeError

-----------------------------------------------------------------------------
(* BatchProcessor.process_batch and process_single_resume *)

MaxResumes == 3

\* The awaited steps of one pipeline, in order, and the step after each.
PipelineSteps == <<"extract_candidate_name", "classify_resume", "analyze_resume",
                   "add_resume_analysis">>
PipelineStepSet == {PipelineSteps[k] : k \in 1..Len(PipelineSteps)}

NextStep(step) ==
    CASE step = "extract_candidate_name" -> "classify_resume"
      [] step = "classify_resume" -> "analyze_resume"
      [] step = "analyze_resume" -> "add_resume_analysis"

Pending == [kind |-> "pending", resume_id |-> 0, fit_score |-> 0,
            recommendation |-> None, status |-> None]

\* The ResumeAnalysisResult built from the LLM's analysis.
AnalysedResult(resume_id) ==
    [kind |-> "result", resume_id |-> resume_id, fit_score |-> 80,
     recommendation |-> "INTERVIEW", status |-> "analysed"]

\* The fallback_result of the except branch.
FallbackResult(resume_id) ==
    [kind |-> "result", resume_id |-> resume_id, fit_score |-> 50,
     recommendation |-> "MANUAL_REVIEW", status |-> "processing_failed"]

\* What asyncio.gather(return_exceptions=True) holds for a task that raised.
RaisedException(resume_id) ==
    [kind |-> "exception", resume_id |-> resume_id, fit_score |-> 0,
     recommendation |-> None, status |-> None]

\* Mutant: the except branch lets the error out of the pipeline.
OnProcessingError_Reraise(fallback_fails) == "raise"

\* The except branch of process_single_resume: it builds and stores a
\* fallback result; only an error raised in the branch itself leaves the
\* pipeline.
OnProcessingError(fallback_fails) == IF fallback_fails THEN "raise" ELSE "fallback"

BatchIdle ==
    /\ bpc = "idle"
    /\ resumes = <<>>
    /\ raises_at = <<>>
    /\ fallback_raises = <<>>
    /\ task_pc = <<>>
    /\ completed = <<>>
    /\ results = <<>>
    /\ stored = <<>>
    /\ batch_failed = 0

\* process_batch is called with 1..MaxResumes resumes; for each pipeline the
\* environment fixes the step that raises (None: no step does) and whether
\* storing the fallback raises too.
BatchInit ==
    /\ bpc = "start"
    /\ \E n \in 1..MaxResumes :
        /\ resumes = [k \in 1..n |-> k]
        /\ raises_at \in [1..n -> PipelineStepSet \cup {None}]
        /\ fallback_raises \in [1..n -> BOOLEAN]
        /\ \A k \in 1..n : fallback_raises[k] => raises_at[k] # None
    /\ task_pc = <<>>
    /\ completed = <<>>
    /\ results = <<>>
    /\ stored = <<>>
    /\ batch_failed = 0

\* The tasks are created and handed to asyncio.gather.
GatherTasks ==
    /\ bpc = "start"
    /\ task_pc' = [k \in 1..Len(resumes) |-> "extract_candidate_name"]
    /\ completed' = [k \in 1..Len(resumes) |-> Pending]
    /\ bpc' = "gather"
    /\ UNCHANGED <<resumes, raises_at, fallback_raises, results, stored, batch_failed>>
    /\ UNCHANGED exceptBatch

\* One step of the pipeline of resume i; the pipelines interleave.
PipelineStep(i) ==
    /\ bpc = "gather"
    /\ task_pc[i] \in PipelineStepSet \cup {"except"}
    /\ LET step == task_pc[i]
       IN  IF step = "except"
           THEN IF OnProcessingError(fallback_raises[i]) = "fallback"
                THEN /\ stored' = Append(stored, FallbackResult(resumes[i]))
                     /\ completed' = [completed EXCEPT ![i] = FallbackResult(resumes[i])]
                     /\ task_pc' = [task_pc EXCEPT ![i] = "returned"]
                ELSE /\ completed' = [completed EXCEPT ![i] = RaisedException(resumes[i])]
                     /\ task_pc' = [task_pc EXCEPT ![i] = "raised"]
                     /\ UNCHANGED stored
           ELSE IF raises_at[i] = step
           THEN /\ task_pc' = [task_pc EXCEPT ![i] = "except"]
                /\ UNCHANGED <<completed, stored>>
           ELSE IF step = "add_resume_analysis"
           THEN /\ stored' = Append(stored, AnalysedResult(resumes[i]))
                /\ completed' = [completed EXCEPT ![i] = AnalysedResult(resumes[i])]
                /\ task_pc' = [task_pc EXCEPT ![i] = "returned"]
           ELSE /\ task_pc' = [task_pc EXCEPT ![i] = NextStep(step)]
                /\ UNCHANGED <<completed, stored>>
    /\ UNCHANGED <<bpc, resumes, raises_at, fallback_raises, results, batch_failed>>
    /\ UNCHANGED exceptBatch

RunPipelines == \E i \in 1..Len(task_pc) : PipelineStep(i)

\* [r for r in completed if not isinstance(r, Exception)], in task order
RECURSIVE NotExceptions(_)
NotExceptions(done) ==
    IF done = <<>> THEN <<>>
    ELSE IF Head(done).kind = "exception" THEN NotExceptions(Tail(done))
    ELSE <<Head(done)>> \o NotExceptions(Tail(done))

\* gather has returned: exceptions are logged, the rest is returned, and the
\* batch is reported as len(results) successful and the exceptions failed.
CollectResults ==
    /\ bpc = "gather"
    /\ \A i \in 1..Len(task_pc) : task_pc[i] \in {"returned", "raised"}
    /\ results' = NotExceptions(completed)
    /\ batch_failed' =
        Cardinality({i \in 1..Len(completed) : completed[i].kind = "exception"})
    /\ bpc' = "done"
    /\ UNCHANGED <<resumes, raises_at, fallback_raises, task_pc, completed, stored>>
    /\ UNCHANGED exceptBatch

-----------------------------------------------------------------------------

(* InterviewAnalyzer.analyse: decoding the LLM response *)

MaxContentLen == 4

\* The LLM response is a sequence of tokens: braces and a digit as in JSON,
\* words of prose, a blank, a markdown fence and the word "json" after it.
ContentTokens == {"{", "}", "1", "I", "There", "Sure", Blank, Fence, "json"}

Contents == UNION {[1..n -> ContentTokens] : n \in 0..MaxContentLen}

\* The tokens that begin with "I" or with "The".
ConversationalOpenings == {"I", "There"}

\* Lines 811-817: the fences around the response are removed.
CleanContent(text) ==
    LET stripped == StripWs(text)
        opened == IF Len(stripped) >= 2 /\ stripped[1] = Fence /\ stripped[2] = "json"
                  THEN SubSeq(stripped, 3, Len(stripped))
                  ELSE IF stripped # <<>> /\ stripped[1] = Fence
                  THEN Tail(stripped)
                  ELSE stripped
        closed == IF opened # <<>> /\ opened[Len(opened)] = Fence
                  THEN SubSeq(opened, 1, Len(opened) - 1)
                  ELSE opened
    IN  StripWs(closed)

EmptyResponse == "Interview analysis failed: Azure OpenAI returned empty response"
ConversationalText ==
    "Interview analysis failed: Azure OpenAI returned conversational text instead of JSON"
UnableToParse ==
    "Interview analysis failed: Unable to parse Azure OpenAI JSON response."
UnexpectedError == "Interview analysis failed: argument of type 'int' is not iterable"

\* Mutant: the handler without its test for conversational text.
DecodeFailureMessage_NoProseTest(text) ==
    IF text = <<>> THEN EmptyResponse ELSE UnableToParse

\* except json.JSONDecodeError: the message raised for the response.
DecodeFailureMessage(text) ==
    IF text = <<>> THEN EmptyResponse
    ELSE IF StripWs(text) # <<>> /\ Head(StripWs(text)) \in ConversationalOpenings
    THEN ConversationalText
    ELSE UnableToParse

DecodeIdle ==
    /\ cpc = "idle"
    /\ content = <<>>
    /\ cleaned_content = <<>>
    /\ error_message = None

\* openai_client.complete has returned its str.
DecodeInit ==
    /\ cpc = "response"
    /\ content \in Contents
    /\ cleaned_content = <<>>
    /\ error_message = None

\* The response is cleaned and json.loads runs; a JSONDecodeError is answered
\* by the classified exception, which leaves analyse.
DecodeResponse ==
    /\ cpc = "response"
    /\ cleaned_content' = CleanContent(content)
    /\ IF json_loads(CleanContent(content)) = JSONDecodeError
       THEN /\ cpc' = "raised"
            /\ error_message' = DecodeFailureMessage(content)
       ELSE /\ cpc' = "decoded"
            /\ UNCHANGED error_message
    /\ UNCHANGED content
    /\ UNCHANGED exceptDecode

\* The rest of the try block on the decoded value: an object is returned; on
\* any other value the test '"question_scores" in analysis' raises and the
\* outer handler re-raises it as an analysis failure.
FinishDecoded ==
    /\ cpc = "decoded"
    /\ IF Head(cleaned_content) = "{"
       THEN /\ cpc' = "returned"
            /\ UNCHANGED error_message
       ELSE /\ cpc' = "raised"
            /\ error_message' = UnexpectedError
    /\ UNCHANGED <<content, cleaned_content>>
    /\ UNCHANGED exceptDecode

-----------------------------------------------------------------------------

(* InterviewQuestionGenerator.generate_standardized_questions *)

MaxLlmQuestions == 3

\* evaluation_criteria and number_of_questions of the calls considered; the
\* last criteria do not sum to 100 and get more questions than asked for.
OverAllocated ==
    [c \in CategorySet |-> IF c = "communication" THEN 10 ELSE 100]

GenerationInputs ==
    ({ExampleCriteria,
      [c \in CategorySet |-> IF c \in {"screening", "domain"} THEN 50 ELSE 0],
      [c \in CategorySet |-> IF c = "communication" THEN 100 ELSE 0]}
     \X (1..MaxLlmQuestions))
    \cup {<<OverAllocated, 6>>}

\* question.get('category', 'screening') of a question the LLM wrote: one of
\* the four categories, another word, or no category at all (None).
LlmCategories == CategorySet \cup {"other", None}

\* What openai_client.complete can do: raise, or return an empty str, text
\* that is no JSON, a JSON object without 'questions', or one with a list of
\* questions.
LlmOutcome(kind, questions) == [kind |-> kind, questions |-> questions]

LlmOutcomes ==
    {LlmOutcome(kind, <<>>) :
        kind \in {"transport_error", "empty", "undecodable", "no_questions"}}
    \cup {LlmOutcome("questions",
                      [k \in 1..Len(cats) |-> [category |-> cats[k], source |-> "llm"]]) :
            cats \in UNION {[1..m -> LlmCategories] : m \in 0..MaxLlmQuestions}}

\* No call has been made yet.
NoResponse == LlmOutcome("none", <<>>)

\* generated_distribution[category]: a question without a category counts as
\* a screening question, any other unknown category is not counted.
CategoryCount(questions, c) ==
    Cardinality({k \in 1..Len(questions) :
        (IF questions[k].category = None THEN "screening" ELSE questions[k].category) = c})

\* Mutant: the distribution of the generated questions is not checked.
DistributionValid_Unchecked(questions, distribution) == TRUE

\* distribution_valid: every category has exactly its required count.
DistributionValid(questions, distribution) ==
    \A c \in CategorySet : CategoryCount(questions, c) = distribution[c]

\* The questions _generate_fallback_questions appends: for each category in
\* declaration order, as many canned questions as the distribution says.
RECURSIVE FallbackFrom(_, _)
FallbackFrom(distribution, k) ==
    IF k > Len(Categories) THEN <<>>
    ELSE [n \in 1..distribution[Categories[k]] |->
             [category |-> Categories[k], source |-> "fallback"]]
         \o FallbackFrom(distribution, k + 1)

generate_fallback_questions(distribution) ==
    LET questions == FallbackFrom(distribution, 1)
    IN  [questions |-> questions,
         total_questions |-> Len(questions),
         estimated_duration |-> Len(questions) * 2]

NoQuestions == [questions |-> <<>>, total_questions |-> 0, estimated_duration |-> 0]

GenerateIdle ==
    /\ gpc = "idle"
    /\ generation_input = <<>>
    /\ question_distribution = None
    /\ llm_calls = 0
    /\ response = NoResponse
    /\ generated = NoQuestions

GenerateInit ==
    /\ gpc = "start"
    /\ generation_input \in GenerationInputs
    /\ question_distribution = None
    /\ llm_calls = 0
    /\ response = NoResponse
    /\ generated = NoQuestions

\* The questions are distributed and the prompt is built.
PrepareGeneration ==
    /\ gpc = "start"
    /\ question_distribution' =
        distribute_questions(generation_input[1], generation_input[2])
    /\ gpc' = "prompted"
    /\ UNCHANGED <<generation_input, llm_calls, response, generated>>
    /\ UNCHANGED exceptGenerate

\* await self.openai_client.complete(messages, temperature=0.3)
CallLlm ==
    /\ gpc = "prompted"
    /\ llm_calls' = llm_calls + 1
    /\ response' \in LlmOutcomes
    /\ gpc' = "responded"
    /\ UNCHANGED <<generation_input, question_distribution, generated>>
    /\ UNCHANGED exceptGenerate

\* The response is validated: the LLM's question set is returned when it has
\* the right number of questions in the right categories, the canned set in
\* every other case.
ValidateGenerated ==
    /\ gpc = "responded"
    /\ generated' =
        IF /\ response.kind = "questions"
           /\ Len(response.questions) = generation_input[2]
           /\ DistributionValid(response.questions, question_distribution)
        THEN [questions |-> response.questions,
              total_questions |-> generation_input[2],
              estimated_duration |-> 10]
        ELSE generate_fallback_questions(question_distribution)
    /\ gpc' = "returned"
    /\ UNCHANGED <<generation_input, question_distribution, llm_calls, response>>
    /\ UNCHANGED exceptGenerate

-----------------------------------------------------------------------------

(* AzureOpenAIClient: the rate limiter around every LLM call *)

MAX_CONCURRENT_REQUESTS == 10
stop_after_attempt == 3

\* The clients alive at one time: the one BatchProcessor keeps for all its
\* pipelines and one a request handler constructs for its own analysis.
Clients == {"batch_processor", "request_handler"}

\* How many calls of complete each client has been asked for.
BatchCalls == 11
HandlerCalls == 1

\* Where a call of complete can be: waiting for the semaphore or in flight in
\* its n-th attempt, returned, or given up after the last attempt.
CallPositions ==
    ({"waiting", "in_flight"} \X (1..stop_after_attempt))
    \cup {<<"returned", 0>>, <<"raised", 0>>}

InFlight(client_calls) ==
    SumOver([a \in 1..stop_after_attempt |-> client_calls[<<"in_flight", a>>]],
            1..stop_after_attempt)

Move(client_calls, from, to) ==
    [client_calls EXCEPT ![from] = @ - 1, ![to] = @ + 1]

GateIdle ==
    /\ rate_limiter = <<>>
    /\ calls = <<>>

\* Each client is constructed with its own asyncio.Semaphore, and its calls
\* start by waiting for it; calls[c][p] is the number of c's calls at p.
GateInit ==
    /\ rate_limiter = [c \in Clients |-> MAX_CONCURRENT_REQUESTS]
    /\ calls = [c \in Clients |->
                  [p \in CallPositions |->
                      IF p = <<"waiting", 1>>
                      THEN IF c = "batch_processor" THEN BatchCalls ELSE HandlerCalls
                      ELSE 0]]

\* async with self.rate_limiter: a waiting call takes a permit of its own
\* client and issues the request.
AcquirePermit(c, a) ==
    /\ c \in DOMAIN calls
    /\ calls[c][<<"waiting", a>>] > 0
    /\ rate_limiter[c] > 0
    /\ rate_limiter' = [rate_limiter EXCEPT ![c] = @ - 1]
    /\ calls' = [calls EXCEPT ![c] = Move(@, <<"waiting", a>>, <<"in_flight", a>>)]
    /\ UNCHANGED exceptGate

\* The request completes: the content is returned and the permit released.
CallReturns(c, a) ==
    /\ c \in DOMAIN calls
    /\ calls[c][<<"in_flight", a>>] > 0
    /\ rate_limiter' = [rate_limiter EXCEPT ![c] = @ + 1]
    /\ calls' = [calls EXCEPT ![c] = Move(@, <<"in_flight", a>>, <<"returned", 0>>)]
    /\ UNCHANGED exceptGate

\* The request fails or returns null content: the exception leaves the
\* async with block, which releases the permit, and the retry decorator
\* starts the next attempt or gives up after the last one.
CallRaises(c, a) ==
    /\ c \in DOMAIN calls
    /\ calls[c][<<"in_flight", a>>] > 0
    /\ rate_limiter' = [rate_limiter EXCEPT ![c] = @ + 1]
    /\ calls' = [calls EXCEPT ![c] =
                    Move(@, <<"in_flight", a>>,
                         IF a < stop_after_attempt THEN <<"waiting", a + 1>>
                         ELSE <<"raised", 0>>)]
    /\ UNCHANGED exceptGate

Acquire == \E c \in Clients, a \in 1..stop_after_attempt : AcquirePermit(c, a)
Return == \E c \in Clients, a \in 1..stop_after_attempt : CallReturns(c, a)
Raise == \E c \in Clients, a \in 1..stop_after_attempt : CallRaises(c, a)

-----------------------------------------------------------------------------

(* InterviewQuestionGenerator.generate_adaptive_question_pool *)

\* _distribute_questions(evaluation_criteria) is called without a total, so
\* the pool is always distributed over the default of the parameter.
default_total_questions == 7

\* for difficulty in ["easy", "medium", "hard"]
Difficulties == <<"easy", "medium", "hard">>
DifficultySet == {Difficulties[k] : k \in 1..Len(Difficulties)}

\* The evaluation criteria of the calls considered: four, two and one
\* category with a share, none at all, and two categories out of order.
PoolCriteria ==
    {ExampleCriteria,
     [c \in CategorySet |-> IF c \in {"screening", "domain"} THEN 50 ELSE 0],
     [c \in CategorySet |-> IF c = "communication" THEN 100 ELSE 0],
     [c \in CategorySet |-> 0],
     [c \in CategorySet |-> IF c \in {"domain", "communication"} THEN 50 ELSE 0]}

\* evaluation_criteria of the calls considered, as (percentages,
\* number_of_questions): the key number_of_questions is absent, <<>>, or
\* holds one of 1..MaxTotal, <<n>>; the criteria with a share in all four
\* categories come with one number only.
PoolInputs ==
    {<<criteria, n>> \in PoolCriteria \X ({<<>>} \cup {<<k>> : k \in 1..MaxTotal}) :
        criteria = ExampleCriteria => n = <<5>>}

\* evaluation_criteria.get("number_of_questions", 7)
NumberOfQuestions(n) == IF n = <<>> THEN 7 ELSE n[1]

\* The config before the pool is built.
NoConfig == [questions_per_category |-> None, total_questions |-> 0]

\* "screening": {"easy": [], "medium": [], "hard": []}, ...
EmptyPool == [c \in CategorySet |-> [d \in DifficultySet |-> <<>>]]

\* Mutant: the loop body runs for every category.
HasAllocation_Always(question_count) == TRUE

\* if question_count > 0:
HasAllocation(question_count) == question_count > 0

\* The keys of the dict fallback_questions.
FallbackTiers == {"easy", "medium", "very_hard"}

\* fallback_questions.get(difficulty_level, fallback_questions['medium'])
FallbackTier(difficulty) ==
    IF difficulty \in FallbackTiers THEN difficulty ELSE "medium"

\* _get_fallback_questions_for_category: the "questions" of
\* _generate_fallback_questions for the distribution {category: count}: count
\* questions of the category, their text from the list of the tier found for
\* the difficulty; the dicts have the keys id, category, question,
\* focus_area and expected_depth, and no key difficulty.
get_fallback_questions_for_category(category, difficulty, count) ==
    [k \in 1..count |->
        [category |-> category, source |-> "fallback", tier |-> FallbackTier(difficulty)]]

\* What _generate_questions_for_difficulty returns after its one call of
\* openai_client.complete: the list the LLM wrote (here as many questions as
\* asked for, or none), each question relabelled with the category and the
\* difficulty, or, when the call or the decoding raised, the canned
\* questions.
QuestionsForDifficulty(category, difficulty, count) ==
    {[k \in 1..n |-> [category |-> category, difficulty |-> difficulty, source |-> "llm"]] :
        n \in {0, count}}
    \cup {get_fallback_questions_for_category(category, difficulty, count)}

\* The pair of the loops that comes after the pair at (ci, di).
NextPair(ci, di) == IF di < Len(Difficulties) THEN <<ci, di + 1>> ELSE <<ci + 1, 1>>

PoolIdle ==
    /\ qpc = "idle"
    /\ pool_criteria = None
    /\ pool_number_of_questions = <<>>
    /\ total_base_questions = 0
    /\ adaptive_config = NoConfig
    /\ pool_distribution = None
    /\ pool_position = <<0, 0>>
    /\ llm_requests = <<>>
    /\ question_pool = EmptyPool

PoolInit ==
    /\ qpc = "start"
    /\ \E input \in PoolInputs :
          /\ pool_criteria = input[1]
          /\ pool_number_of_questions = input[2]
    /\ total_base_questions = 0
    /\ adaptive_config = NoConfig
    /\ pool_distribution = None
    /\ pool_position = <<0, 0>>
    /\ llm_requests = <<>>
    /\ question_pool = EmptyPool

\* question_distribution = self._distribute_questions(evaluation_criteria)
\* total_base_questions = evaluation_criteria.get("number_of_questions", 7)
DistributePool ==
    /\ qpc = "start"
    /\ pool_distribution' = distribute_questions(pool_criteria, default_total_questions)
    /\ total_base_questions' = NumberOfQuestions(pool_number_of_questions)
    /\ pool_position' = <<1, 1>>
    /\ qpc' = "loop"
    /\ UNCHANGED <<pool_criteria, pool_number_of_questions, adaptive_config, llm_requests, question_pool>>
    /\ UNCHANGED exceptPool

\* One pass of the inner loop: the questions of one category at one
\* difficulty are requested and stored in the pool.
GenerateForDifficulty ==
    /\ qpc = "loop"
    /\ pool_position[1] <= Len(Categories)
    /\ LET category == Categories[pool_position[1]]
           difficulty == Difficulties[pool_position[2]]
           question_count == pool_distribution[category]
       IN  /\ HasAllocation(question_count)
           /\ llm_requests' = Append(llm_requests, <<category, difficulty>>)
           /\ \E questions \in QuestionsForDifficulty(category, difficulty, question_count) :
                question_pool' = [question_pool EXCEPT ![category][difficulty] = questions]
    /\ pool_position' = NextPair(pool_position[1], pool_position[2])
    /\ UNCHANGED <<qpc, pool_criteria, pool_distribution>>
    /\ UNCHANGED <<pool_number_of_questions, total_base_questions, adaptive_config>>
    /\ UNCHANGED exceptPool

\* A category without questions: the outer loop goes on to the next one.
SkipCategory ==
    /\ qpc = "loop"
    /\ pool_position[1] <= Len(Categories)
    /\ ~HasAllocation(pool_distribution[Categories[pool_position[1]]])
    /\ pool_position' = <<pool_position[1] + 1, 1>>
    /\ UNCHANGED <<qpc, pool_criteria, pool_distribution, llm_requests, question_pool>>
    /\ UNCHANGED <<pool_number_of_questions, total_base_questions, adaptive_config>>
    /\ UNCHANGED exceptPool

\* The loops are over: the pool is returned with its configuration.
ReturnPool ==
    /\ qpc = "loop"
    /\ pool_position[1] > Len(Categories)
    /\ qpc' = "returned"
    /\ adaptive_config' = [questions_per_category |-> pool_distribution,
                           total_questions |-> total_base_questions]
    /\ UNCHANGED <<pool_criteria, pool_distribution, pool_position, llm_requests, question_pool>>
    /\ UNCHANGED <<pool_number_of_questions, total_base_questions>>
    /\ UNCHANGED exceptPool

-----------------------------------------------------------------------------

(* ResumeAnalyzer.analyze_resume: decoding the LLM response *)

\* What openai_client.complete gives analyze_resume: it raises (<<"raise">>),
\* or returns a str: nothing, blanks, prose, JSON, or JSON in need of repair.
TransportError == <<"raise">>

AnalysisResponses ==
    JsonObjects \cup BrokenTexts
    \cup {<<>>, <<Blank>>, <<"x">>, <<"x", Blank, "{", "}">>,
          <<Blank, "{">> \o String("a") \o <<":", "1", "}", NewLine>>,
          <<Fence, "{">> \o String("a") \o <<":", "1", "}", Fence>>}

\* strip(); a leading fence with the word json and a trailing fence are cut;
\* strip() again.
CleanResponse(text) ==
    LET stripped == StripWs(text)
        opened == IF Len(stripped) >= 2 /\ stripped[1] = Fence /\ stripped[2] = "json"
                  THEN SubSeq(stripped, 3, Len(stripped))
                  ELSE stripped
        closed == IF opened # <<>> /\ opened[Len(opened)] = Fence
                  THEN SubSeq(opened, 1, Len(opened) - 1)
                  ELSE opened
    IN  StripWs(closed)

\* The dict fallback_analysis, written as the value json.loads would give.
fallback_analysis ==
    <<"{">> \o String("fit_score") \o <<":", "50.0", ",">>
    \o String("recommendation") \o <<":">> \o String("MANUAL_REVIEW") \o <<"}">>

\* Mutant: a failed repair gives the caller the decode error.
AfterRepair_Reraise(text) == json_loads(text)

\* json.loads(repaired_json), and the canned analysis when that raises.
AfterRepair(text) ==
    IF IsJson(text) THEN json_loads(text) ELSE fallback_analysis

\* _repair_json with its except branch: when a step raises, the original
\* string comes back.
RepairOrOriginal(text, step_raises) == IF step_raises THEN text ELSE repair_json(text)

ResumeIdle ==
    /\ zpc = "idle"
    /\ llm_response = <<>>
    /\ repair_step_raises = FALSE
    /\ cleaned_response = <<>>
    /\ repaired_json = <<>>
    /\ returned_analysis = <<>>

ResumeInit ==
    /\ zpc = "call"
    /\ llm_response \in AnalysisResponses \cup {TransportError}
    /\ repair_step_raises \in BOOLEAN
    /\ cleaned_response = <<>>
    /\ repaired_json = <<>>
    /\ returned_analysis = <<>>

\* The call raised, or returned nothing: analyze_resume raises.
AnalysisRaises ==
    /\ zpc = "call"
    /\ llm_response = TransportError \/ llm_response = <<>>
    /\ zpc' = "raised"
    /\ UNCHANGED <<llm_response, repair_step_raises, cleaned_response, repaired_json,
                   returned_analysis>>
    /\ UNCHANGED exceptResume

\* The response is cleaned and decoded; the object is returned when that works.
DecodeAnalysis ==
    /\ zpc = "call"
    /\ llm_response # TransportError /\ llm_response # <<>>
    /\ cleaned_response' = CleanResponse(llm_response)
    /\ IF IsJson(cleaned_response')
       THEN /\ returned_analysis' = json_loads(cleaned_response')
            /\ zpc' = "returned"
       ELSE /\ returned_analysis' = returned_analysis
            /\ zpc' = "repair"
    /\ UNCHANGED <<llm_response, repair_step_raises, repaired_json>>
    /\ UNCHANGED exceptResume

\* except json.JSONDecodeError: the repaired text is decoded, and the canned
\* analysis is returned when that fails too.
RepairAnalysis ==
    /\ zpc = "repair"
    /\ repaired_json' = RepairOrOriginal(cleaned_response, repair_step_raises)
    /\ returned_analysis' = AfterRepair(repaired_json')
    /\ zpc' = IF returned_analysis' = JSONDecodeError THEN "raised" ELSE "returned"
    /\ UNCHANGED <<llm_response, repair_step_raises, cleaned_response>>
    /\ UNCHANGED exceptResume

-----------------------------------------------------------------------------

(* process_resumes_background and the processing status of a job *)

MaxFiles == 2
BATCH_SIZE == 50

\* The uploads to one job whose background runs overlap.
Uploads == {"first_upload", "second_upload"}

\* extract_text of a file gives a resume ("text"), too little text, or raises.
FileOutcomes == {"text", "too_short", "unreadable"}

\* resumes_data: the files whose text was extracted, in file order.
RECURSIVE ParsedFiles(_, _)
ParsedFiles(files, k) ==
    IF k > Len(files) THEN <<>>
    ELSE (IF files[k] = "text" THEN <<k>> ELSE <<>>) \o ParsedFiles(files, k + 1)

\* Mutant: the total grows by the number of files uploaded.
TotalIncrement_AllFiles(files) == Len(files)

\* storage.increment_total_resumes(job_id, len(resumes_data))
TotalIncrement(files) == Len(ParsedFiles(files, 1))

\* resumes_data[i:i + Config.BATCH_SIZE], as positions in resumes_data
BatchOf(parsed, i) ==
    {k \in 1..Len(parsed) : i < k /\ k <= i + BATCH_SIZE}

\* InMemoryStore.add_resume_analysis
add_resume_analysis(status, analyses, result_data) ==
    [status |-> [status EXCEPT !.processed = @ + 1],
     analyses |-> Append(analyses, result_data)]

BackgroundIdle ==
    /\ upc = <<>>
    /\ job_analysed = FALSE
    /\ file_contents = <<>>
    /\ resumes_data = <<>>
    /\ batch_start = <<>>
    /\ resume_task = <<>>
    /\ processing_status = [total |-> 0, processed |-> 0]
    /\ resume_analyses = <<>>

\* Two uploads of 1..MaxFiles files have been accepted for the job and their
\* background tasks are queued.
BackgroundInit ==
    /\ upc = [u \in Uploads |-> "queued"]
    /\ job_analysed \in BOOLEAN
    /\ file_contents \in
        [Uploads -> UNION {[1..n -> FileOutcomes] : n \in 1..MaxFiles}]
    /\ resumes_data = [u \in Uploads |-> <<>>]
    /\ batch_start = [u \in Uploads |-> 0]
    /\ resume_task = [u \in Uploads |-> <<>>]
    /\ processing_status = [total |-> 0, processed |-> 0]
    /\ resume_analyses = <<>>

\* The run up to its first await: the job is looked up, the files are parsed,
\* the total is raised, and the pipelines of the first batch are created.
BeginRun(u) ==
    /\ upc[u] = "queued"
    /\ IF ~job_analysed
       THEN /\ upc' = [upc EXCEPT ![u] = "finished"]
            /\ UNCHANGED <<resumes_data, resume_task, processing_status>>
       ELSE LET parsed == ParsedFiles(file_contents[u], 1)
            IN  /\ resumes_data' = [resumes_data EXCEPT ![u] = parsed]
                /\ processing_status' =
                     [processing_status EXCEPT
                        !.total = @ + TotalIncrement(file_contents[u])]
                /\ resume_task' = [resume_task EXCEPT ![u] =
                     [k \in 1..Len(parsed) |->
                        IF k \in BatchOf(parsed, 0) THEN "pipeline" ELSE "waiting"]]
                /\ upc' = [upc EXCEPT ![u] =
                     IF parsed = <<>> THEN "finished" ELSE "gather"]
    /\ UNCHANGED <<job_analysed, file_contents, batch_start, resume_analyses>>
    /\ UNCHANGED exceptBackground

\* A step of the pipeline of one resume raises: the except branch is entered.
PipelineRaises(u, k) ==
    /\ upc[u] = "gather"
    /\ resume_task[u][k] = "pipeline"
    /\ resume_task' = [resume_task EXCEPT ![u][k] = "except"]
    /\ UNCHANGED <<upc, job_analysed, file_contents, resumes_data, batch_start,
                   processing_status, resume_analyses>>
    /\ UNCHANGED exceptBackground

\* The pipeline of one resume ends: its result, or in the except branch its
\* fallback result, is stored and counted.
StoreResult(u, k) ==
    /\ upc[u] = "gather"
    /\ resume_task[u][k] \in {"pipeline", "except"}
    /\ LET result_data == [upload |-> u, resume |-> resumes_data[u][k],
                        status |-> IF resume_task[u][k] = "except"
                                   THEN "processing_failed" ELSE "analysed"]
           added == add_resume_analysis(processing_status, resume_analyses, result_data)
       IN  /\ processing_status' = added.status
           /\ resume_analyses' = added.analyses
    /\ resume_task' = [resume_task EXCEPT ![u][k] = "returned"]
    /\ UNCHANGED <<upc, job_analysed, file_contents, resumes_data, batch_start>>
    /\ UNCHANGED exceptBackground

\* gather has returned for the batch: the next batch starts, or the run ends.
BatchDone(u) ==
    /\ upc[u] = "gather"
    /\ \A k \in BatchOf(resumes_data[u], batch_start[u]) : resume_task[u][k] = "returned"
    /\ LET i == batch_start[u] + BATCH_SIZE
       IN  /\ batch_start' = [batch_start EXCEPT ![u] = i]
           /\ IF i < Len(resumes_data[u])
              THEN /\ resume_task' = [resume_task EXCEPT ![u] =
                        [k \in 1..Len(resumes_data[u]) |->
                           IF k \in BatchOf(resumes_data[u], i) THEN "pipeline"
                           ELSE resume_task[u][k]]]
                   /\ upc' = upc
              ELSE /\ upc' = [upc EXCEPT ![u] = "finished"]
                   /\ resume_task' = resume_task
    /\ UNCHANGED <<job_analysed, file_contents, resumes_data, processing_status,
                   resume_analyses>>
    /\ UNCHANGED exceptBackground

StartRuns == \E u \in Uploads : BeginRun(u)
RaiseInPipeline == \E u \in Uploads : \E k \in 1..Len(resume_task[u]) : PipelineRaises(u, k)
StoreResults == \E u \in Uploads : \E k \in 1..Len(resume_task[u]) : StoreResult(u, k)
FinishBatches == \E u \in Uploads : BatchDone(u)

-----------------------------------------------------------------------------

(* Completing an interview session: the three completion paths *)

MaxCompletions == 2

\* complete_interview, complete_interview_with_transcript and
\* process_interview_completion_webhook (a post_call_transcription delivery).
CompletionPaths == {"complete", "complete_with_transcript", "webhook"}

\* What insert(row).execute() on interview_results can do: the row is stored
\* and returned, the call returns without data, or it raises.
InsertOutcomes == {"stored", "no_data", "raises"}

\* Whether the path goes on to set the session's status after the insert:
\* complete_interview does whenever the insert did not raise; the other two
\* only "if insert_res.data".
CompletesSession(path, inserted) ==
    IF path = "complete" THEN inserted # "raises" ELSE inserted = "stored"

CompletionIdle ==
    /\ completion_path = <<>>
    /\ completion_pc = <<>>
    /\ session_status = "idle"
    /\ interview_results = <<>>

\* One session whose interview is in progress, and 1..MaxCompletions
\* completion requests for it, each by one of the three paths.
CompletionInit ==
    /\ \E n \in 1..MaxCompletions : completion_path \in [1..n -> CompletionPaths]
    /\ completion_pc = [r \in DOMAIN completion_path |-> "start"]
    /\ session_status = "in_progress"
    /\ interview_results = <<>>

\* The request reads the session and the transcript and awaits the analysis,
\* or returns early: session not found, no transcript, the fetch raised.
BeginCompletion(r) ==
    /\ completion_pc[r] = "start"
    /\ \E next \in {"analysing", "error"} :
          completion_pc' = [completion_pc EXCEPT ![r] = next]
    /\ UNCHANGED <<completion_path, session_status, interview_results>>
    /\ UNCHANGED exceptCompletion

\* analyse raises: the except branch returns or logs the error.
AnalysisFails(r) ==
    /\ completion_pc[r] = "analysing"
    /\ completion_pc' = [completion_pc EXCEPT ![r] = "error"]
    /\ UNCHANGED <<completion_path, session_status, interview_results>>
    /\ UNCHANGED exceptCompletion

\* analyse returned: the row is inserted and the session is updated, with no
\* await in between.
StoreAndComplete(r) ==
    /\ completion_pc[r] = "analysing"
    /\ \E inserted \in InsertOutcomes, update_raises \in BOOLEAN :
          /\ interview_results' =
                IF inserted = "stored"
                THEN Append(interview_results,
                            [interview_session_id |-> "session", request |-> r,
                             source |-> completion_path[r]])
                ELSE interview_results
          /\ IF CompletesSession(completion_path[r], inserted)
             THEN IF update_raises
                  THEN /\ session_status' = session_status
                       /\ completion_pc' = [completion_pc EXCEPT ![r] = "error"]
                  ELSE /\ session_status' = "completed"
                       /\ completion_pc' = [completion_pc EXCEPT ![r] = "success"]
             ELSE /\ session_status' = session_status
                  /\ completion_pc' = [completion_pc EXCEPT ![r] = "error"]
    /\ UNCHANGED completion_path
    /\ UNCHANGED exceptCompletion

BeginCompletions == \E r \in DOMAIN completion_pc : BeginCompletion(r)
FailAnalysis == \E r \in DOMAIN completion_pc : AnalysisFails(r)
StoreCompletions == \E r \in DOMAIN completion_pc : StoreAndComplete(r)

-----------------------------------------------------------------------------

(* HybridStore.create_job *)

MaxJobRequests == 4

\* What SupabaseStore.create_job meets: no client, an insert that returns
\* the row, one that returns no data, one that raises.
SupabaseOutcomes == {"no_client", "stored", "no_data", "raises"}

\* SupabaseStore.create_job: True only when the insert returned data; every
\* exception is caught and gives False.
supabase_create_job(outcome) == outcome = "stored"

\* Mutant: a job the persistent store refused stays in memory.
RemoveFromMemory_Kept(jobs, job_id) == jobs

\* if job_id in self.memory_store.jobs: del self.memory_store.jobs[job_id]
RemoveFromMemory(jobs, job_id) == jobs \ {job_id}

\* HybridStore.get_job: the job in memory, or None.
get_job(jobs, job_id) == IF job_id \in jobs THEN job_id ELSE None

CreateJobIdle ==
    /\ jpc = <<>>
    /\ memory_jobs = {}
    /\ job_posts = {}
    /\ job_created = <<>>

\* 1..MaxJobRequests POST /api/jobs requests, each with its own uuid4 job id
\* (here the number of the request).
CreateJobInit ==
    /\ \E n \in 1..MaxJobRequests : jpc = [r \in 1..n |-> "start"]
    /\ memory_jobs = {}
    /\ job_posts = {}
    /\ job_created = [r \in DOMAIN jpc |-> "pending"]

\* self.memory_store.create_job(job_id, job_data), then the await.
StoreInMemory(r) ==
    /\ jpc[r] = "start"
    /\ memory_jobs' = memory_jobs \cup {r}
    /\ jpc' = [jpc EXCEPT ![r] = "awaiting"]
    /\ UNCHANGED <<job_posts, job_created>>
    /\ UNCHANGED exceptCreateJob

\* The persistent store has answered: the job stays and True is returned, or
\* it is taken out of memory and False is returned.
FinishCreateJob(r) ==
    /\ jpc[r] = "awaiting"
    /\ \E outcome \in SupabaseOutcomes :
          /\ job_posts' = IF outcome = "stored" THEN job_posts \cup {r} ELSE job_posts
          /\ IF supabase_create_job(outcome)
             THEN /\ memory_jobs' = memory_jobs
                  /\ job_created' = [job_created EXCEPT ![r] = "True"]
             ELSE /\ memory_jobs' = RemoveFromMemory(memory_jobs, r)
                  /\ job_created' = [job_created EXCEPT ![r] = "False"]
    /\ jpc' = [jpc EXCEPT ![r] = "returned"]
    /\ UNCHANGED exceptCreateJob

StoreJobsInMemory == \E r \in DOMAIN jpc : StoreInMemory(r)
FinishCreateJobs == \E r \in DOMAIN jpc : FinishCreateJob(r)

-----------------------------------------------------------------------------

-----------------------------------------------------------------------------
(* create_job_interview_setup, the multi-configuration branch *)

MaxConfigurations == 2
MaxExistingSetups == 2

\* screening, domain and behavioral_attitude percentages of a configuration.
PercentageSplits == {<<30, 40, 30>>, <<30, 40, 20>>, <<50, 40, 30>>}

\* A configuration of the request: role_type-level and its percentages.
Configurations ==
    [role_level : {"technical-junior", "technical-senior"}, split : PercentageSplits]

\* setup_data["configurations"]
ConfigurationLists ==
    UNION {[1..n -> Configurations] : n \in 1..MaxConfigurations}

\* The interview_setup rows the job has before the request.
ExistingSetups ==
    UNION {[1..n -> [role_level : {"technical-junior"}, is_active : BOOLEAN]]
              : n \in 0..MaxExistingSetups}

\* .execute() of an insert: a row in result.data, an empty result.data, or an
\* exception.
SetupInsertOutcomes == {"stored", "no_data", "raises"}

\* config.get("screening_percentage", 0) + config.get("domain_percentage", 0)
\*     + config.get("behavioral_attitude_percentage", 0)
total_percentage(config) == config.split[1] + config.split[2] + config.split[3]

\* update({"is_active": False, ...}).eq("job_post_id", job_id)
SoftDelete(rows) == [i \in DOMAIN rows |-> [rows[i] EXCEPT !.is_active = FALSE]]

\* The rows of the job with is_active set, by their place in the table.
ActiveSetups(rows) == {i \in DOMAIN rows : rows[i].is_active}

SetupIdle ==
    /\ setup_pc = "idle"
    /\ interview_setup = <<>>
    /\ configurations = <<>>
    /\ config_index = 0
    /\ setup_reply = "none"
    /\ active_before = {}
    /\ job_data_found = FALSE

\* One POST /api/jobs/{job_id}/interview-setup request with "configurations"
\* in its body, for a job that exists or not.
SetupInit ==
    /\ setup_pc = "start"
    /\ interview_setup \in ExistingSetups
    /\ configurations \in ConfigurationLists
    /\ config_index = 0
    /\ setup_reply = "none"
    /\ active_before = ActiveSetups(interview_setup)
    /\ job_data_found \in BOOLEAN

\* job_data = storage.get_job(job_id); if not job_data: return error.
JobNotFound ==
    /\ setup_pc = "start"
    /\ ~job_data_found
    /\ setup_reply' = "job_not_found"
    /\ setup_pc' = "returned"
    /\ UNCHANGED <<interview_setup, configurations, config_index, active_before, job_data_found>>
    /\ UNCHANGED exceptSetup

\* The soft delete of the job's existing setups, before the loop.
SoftDeleteExisting ==
    /\ setup_pc = "start"
    /\ job_data_found
    /\ interview_setup' = SoftDelete(interview_setup)
    /\ config_index' = 1
    /\ setup_pc' = "loop"
    /\ UNCHANGED <<configurations, setup_reply, active_before, job_data_found>>
    /\ UNCHANGED exceptSetup

\* One turn of "for config in configurations": the percentage check, then the
\* insert and the test of result.data; an exception ends in the except clause.
CreateConfiguration ==
    /\ setup_pc = "loop"
    /\ config_index <= Len(configurations)
    /\ LET config == configurations[config_index] IN
       IF total_percentage(config) # 100
       THEN /\ setup_reply' = "percentages"
            /\ setup_pc' = "returned"
            /\ UNCHANGED <<interview_setup, config_index>>
       ELSE \E outcome \in SetupInsertOutcomes :
              /\ interview_setup' =
                    IF outcome = "stored"
                    THEN Append(interview_setup,
                                [role_level |-> config.role_level, is_active |-> TRUE])
                    ELSE interview_setup
              /\ IF outcome = "stored"
                 THEN /\ config_index' = config_index + 1
                      /\ UNCHANGED <<setup_reply, setup_pc>>
                 ELSE /\ setup_reply' = IF outcome = "no_data" THEN "insert_failed"
                                                                ELSE "exception"
                      /\ setup_pc' = "returned"
                      /\ UNCHANGED config_index
    /\ UNCHANGED <<configurations, active_before, job_data_found>>
    /\ UNCHANGED exceptSetup

\* The loop is over: return {"status": "success", "data": created_setups}.
ReturnCreatedSetups ==
    /\ setup_pc = "loop"
    /\ config_index > Len(configurations)
    /\ setup_reply' = "success"
    /\ setup_pc' = "returned"
    /\ UNCHANGED <<interview_setup, configurations, config_index, active_before, job_data_found>>
    /\ UNCHANGED exceptSetup

(* Specifications *)

\* One call of _distribute_questions on any criteria and total.
InitDistribute == DistInit /\ DiffIdle /\ ParseIdle /\ AnalyseIdle /\ RepairIdle /\ BatchIdle /\ DecodeIdle /\ GenerateIdle /\ GateIdle /\ PoolIdle /\ ResumeIdle /\ BackgroundIdle /\ CompletionIdle /\ CreateJobIdle /\ SetupIdle
NextDistribute == Distribute
SpecDistribute == InitDistribute /\ [][NextDistribute]_vars

\* One call of determine_difficulty_level on any resume score.
InitDifficulty == DiffInit /\ DistIdle /\ ParseIdle /\ AnalyseIdle /\ RepairIdle /\ BatchIdle /\ DecodeIdle /\ GenerateIdle /\ GateIdle /\ PoolIdle /\ ResumeIdle /\ BackgroundIdle /\ CompletionIdle /\ CreateJobIdle /\ SetupIdle
NextDifficulty == DetermineDifficulty
SpecDifficulty == InitDifficulty /\ [][NextDifficulty]_vars

\* One call of _parse_transcript_qa_pairs on any transcript.
InitParse == ParseInit /\ DistIdle /\ DiffIdle /\ AnalyseIdle /\ RepairIdle /\ BatchIdle /\ DecodeIdle /\ GenerateIdle /\ GateIdle /\ PoolIdle /\ ResumeIdle /\ BackgroundIdle /\ CompletionIdle /\ CreateJobIdle /\ SetupIdle
NextParse == ParseLine \/ ParseReturn
SpecParse == InitParse /\ [][NextParse]_vars

\* One call of analyse from the point where the LLM response is decoded.
InitAnalyse == AnalyseInit /\ DistIdle /\ DiffIdle /\ ParseIdle /\ RepairIdle /\ BatchIdle /\ DecodeIdle /\ GenerateIdle /\ GateIdle /\ PoolIdle /\ ResumeIdle /\ BackgroundIdle /\ CompletionIdle /\ CreateJobIdle /\ SetupIdle
NextAnalyse ==
    \/ BeginWeighting
    \/ SkipWeighting
    \/ WeighQuestion
    \/ Compensate
    \/ StoreScores
SpecAnalyse == InitAnalyse /\ [][NextAnalyse]_vars

\* One call of _repair_json on an LLM response.
InitRepair == RepairInit /\ DistIdle /\ DiffIdle /\ ParseIdle /\ AnalyseIdle /\ BatchIdle /\ DecodeIdle /\ GenerateIdle /\ GateIdle /\ PoolIdle /\ ResumeIdle /\ BackgroundIdle /\ CompletionIdle /\ CreateJobIdle /\ SetupIdle
NextRepair == RepairJson
SpecRepair == InitRepair /\ [][NextRepair]_vars

\* One call of process_batch; the single-resume pipelines interleave.
InitBatch == BatchInit /\ DistIdle /\ DiffIdle /\ ParseIdle /\ AnalyseIdle /\ RepairIdle /\ DecodeIdle /\ GenerateIdle /\ GateIdle /\ PoolIdle /\ ResumeIdle /\ BackgroundIdle /\ CompletionIdle /\ CreateJobIdle /\ SetupIdle
NextBatch ==
    \/ GatherTasks
    \/ RunPipelines
    \/ CollectResults
SpecBatch == InitBatch /\ [][NextBatch]_vars

\* One call of analyse from the LLM's response to the decoded value or the error.
InitDecode == DecodeInit /\ DistIdle /\ DiffIdle /\ ParseIdle /\ AnalyseIdle /\ RepairIdle /\ BatchIdle /\ GenerateIdle /\ GateIdle /\ PoolIdle /\ ResumeIdle /\ BackgroundIdle /\ CompletionIdle /\ CreateJobIdle /\ SetupIdle
NextDecode ==
    \/ DecodeResponse
    \/ FinishDecoded
SpecDecode == InitDecode /\ [][NextDecode]_vars

\* One call of generate_standardized_questions.
InitGenerate == GenerateInit /\ DistIdle /\ DiffIdle /\ ParseIdle /\ AnalyseIdle /\ RepairIdle /\ BatchIdle /\ DecodeIdle /\ GateIdle /\ PoolIdle /\ ResumeIdle /\ BackgroundIdle /\ CompletionIdle /\ CreateJobIdle /\ SetupIdle
NextGenerate ==
    \/ PrepareGeneration
    \/ CallLlm
    \/ ValidateGenerated
SpecGenerate == InitGenerate /\ [][NextGenerate]_vars

\* The calls of complete of the clients alive at one time.
InitGate == GateInit /\ DistIdle /\ DiffIdle /\ ParseIdle /\ AnalyseIdle /\ RepairIdle /\ BatchIdle /\ DecodeIdle /\ GenerateIdle /\ PoolIdle /\ ResumeIdle /\ BackgroundIdle /\ CompletionIdle /\ CreateJobIdle /\ SetupIdle
NextGate ==
    \/ Acquire
    \/ Return
    \/ Raise
SpecGate == InitGate /\ [][NextGate]_vars

\* Building the adaptive question pool.
InitPool == PoolInit /\ DistIdle /\ DiffIdle /\ ParseIdle /\ AnalyseIdle /\ RepairIdle /\ BatchIdle /\ DecodeIdle /\ GenerateIdle /\ GateIdle /\ ResumeIdle /\ BackgroundIdle /\ CompletionIdle /\ CreateJobIdle /\ SetupIdle
NextPool ==
    \/ DistributePool
    \/ GenerateForDifficulty
    \/ SkipCategory
    \/ ReturnPool
SpecPool == InitPool /\ [][NextPool]_vars

\* Decoding the resume analysis.
InitResume == ResumeInit /\ DistIdle /\ DiffIdle /\ ParseIdle /\ AnalyseIdle /\ RepairIdle /\ BatchIdle /\ DecodeIdle /\ GenerateIdle /\ GateIdle /\ PoolIdle /\ BackgroundIdle /\ CompletionIdle /\ CreateJobIdle /\ SetupIdle
NextResume ==
    \/ AnalysisRaises
    \/ DecodeAnalysis
    \/ RepairAnalysis
SpecResume == InitResume /\ [][NextResume]_vars

\* Background processing of the uploads of one job.
InitBackground == BackgroundInit /\ DistIdle /\ DiffIdle /\ ParseIdle /\ AnalyseIdle /\ RepairIdle /\ BatchIdle /\ DecodeIdle /\ GenerateIdle /\ GateIdle /\ PoolIdle /\ ResumeIdle /\ CompletionIdle /\ CreateJobIdle /\ SetupIdle
NextBackground ==
    \/ StartRuns
    \/ RaiseInPipeline
    \/ StoreResults
    \/ FinishBatches
SpecBackground == InitBackground /\ [][NextBackground]_vars

\* Completion requests for one interview session.
InitCompletion == CompletionInit /\ DistIdle /\ DiffIdle /\ ParseIdle /\ AnalyseIdle /\ RepairIdle /\ BatchIdle /\ DecodeIdle /\ GenerateIdle /\ GateIdle /\ PoolIdle /\ ResumeIdle /\ BackgroundIdle /\ CreateJobIdle /\ SetupIdle
NextCompletion ==
    \/ BeginCompletions
    \/ FailAnalysis
    \/ StoreCompletions
SpecCompletion == InitCompletion /\ [][NextCompletion]_vars

\* Creating jobs in both stores.
InitCreateJob == CreateJobInit /\ DistIdle /\ DiffIdle /\ ParseIdle /\ AnalyseIdle /\ RepairIdle /\ BatchIdle /\ DecodeIdle /\ GenerateIdle /\ GateIdle /\ PoolIdle /\ ResumeIdle /\ BackgroundIdle /\ CompletionIdle /\ SetupIdle
NextCreateJob ==
    \/ StoreJobsInMemory
    \/ FinishCreateJobs
SpecCreateJob == InitCreateJob /\ [][NextCreateJob]_vars

\* One multi-configuration interview-setup request.
InitSetup == SetupInit /\ DistIdle /\ DiffIdle /\ ParseIdle /\ AnalyseIdle /\ RepairIdle /\ BatchIdle /\ DecodeIdle /\ GenerateIdle /\ GateIdle /\ PoolIdle /\ ResumeIdle /\ BackgroundIdle /\ CompletionIdle /\ CreateJobIdle
NextSetup ==
    \/ JobNotFound
    \/ SoftDeleteExisting
    \/ CreateConfiguration
    \/ ReturnCreatedSetups
SpecSetup == InitSetup /\ [][NextSetup]_vars

\* Any one of the operations above.
Init == InitDistribute \/ InitDifficulty \/ InitParse \/ InitAnalyse \/ InitRepair \/ InitBatch \/ InitDecode \/ InitGenerate \/ InitGate \/ InitPool \/ InitResume \/ InitBackground \/ InitCompletion \/ InitCreateJob \/ InitSetup
Next == NextDistribute \/ NextDifficulty \/ NextParse \/ NextAnalyse \/ NextRepair \/ NextBatch \/ NextDecode \/ NextGenerate \/ NextGate \/ NextPool \/ NextResume \/ NextBackground \/ NextCompletion \/ NextCreateJob \/ NextSetup
Spec == Init /\ [][Next]_vars

-----------------------------------------------------------------------------
(* Claims C1-C3: question distribution and difficulty selection *)

\* C1: for every criteria (each percentage in 0..100, any sum) and every
\* total >= 1, the counts returned by _distribute_questions sum to total.
C1_SumEqualsTotal ==
    dpc = "done" => Total(result) = total_questions

\* The first category, in declaration order, with a positive percentage;
\* screening when there is none.
FirstPositive(criteria) ==
    IF \E k \in 1..Len(Categories) : criteria[Categories[k]] > 0
    THEN Categories[CHOOSE k \in 1..Len(Categories) :
                        /\ criteria[Categories[k]] > 0
                        /\ \A j \in 1..(k - 1) : criteria[Categories[j]] = 0]
    ELSE "screening"

\* C2: a category whose percentage is 0 gets count 0 (screening may get the
\* questions only when no category is positive), and when the initial rounding
\* allocates nothing every question goes to the first category, in the order
\* screening, domain, behavioral, communication, with a positive percentage.
C2_ZeroPercentageZeroCount ==
    dpc = "done" =>
        /\ \A c \in CategorySet :
              (evaluation_criteria[c] = 0 /\ \E d \in CategorySet : evaluation_criteria[d] > 0)
                  => result[c] = 0
        /\ Total(InitialCounts(evaluation_criteria, total_questions)) = 0 =>
              result = [c \in CategorySet |->
                          IF c = FirstPositive(evaluation_criteria)
                          THEN total_questions ELSE 0]

\* C3: determine_difficulty_level maps every score in 0..100 to exactly one
\* tier: easy iff score <= 60, medium iff 60 < score <= 70, very_hard iff
\* score > 70.
C3_DifficultyThresholds ==
    lpc = "done" =>
        /\ difficulty_level \in {"easy", "medium", "very_hard"}
        /\ difficulty_level = "easy" <=> resume_score <= 60
        /\ difficulty_level = "medium" <=> (60 < resume_score /\ resume_score <= 70)
        /\ difficulty_level = "very_hard" <=> resume_score > 70

\* The upper boundary of the medium tier has been classified.
C3_Witness ==
    lpc = "done" /\ resume_score = 70 /\ difficulty_level = "medium"

-----------------------------------------------------------------------------
(* Claim C4: transcript parsing *)

StrippedLines(t) == [j \in 1..Len(SplitLines(t)) |-> Strip(SplitLines(t)[j])]

\* The indices of the lines prefixed AI:, AGENT: or INTERVIEWER:, in order.
QuestionLineIndices(t) ==
    SelectSeq([j \in 1..Len(StrippedLines(t)) |-> j],
              LAMBDA j : StartsWith(StrippedLines(t)[j], QuestionPrefixes))

\* No answer line stands between question line k and the next question line.
Unanswered(t, k) ==
    LET idx == QuestionLineIndices(t)
        stop == IF k < Len(idx) THEN idx[k + 1] ELSE Len(StrippedLines(t)) + 1
    IN  \A j \in (idx[k] + 1)..(stop - 1) :
            ~StartsWith(StrippedLines(t)[j], AnswerPrefixes)

\* C4: the parser returns exactly one pair per question line, in the order of
\* those lines, each with the text after the prefix as its question (an empty
\* text included), and a question line with no answer line after it yields a
\* pair with an empty answer.
C4_OnePairPerQuestionLine ==
    ppc = "done" =>
        LET idx == QuestionLineIndices(transcript)
        IN  /\ Len(qa_pairs) = Len(idx)
            /\ \A k \in 1..Len(idx) :
                  /\ qa_pairs[k].question = AfterPrefix(StrippedLines(transcript)[idx[k]])
                  /\ Unanswered(transcript, k) => qa_pairs[k].answer = <<>>

-----------------------------------------------------------------------------
(* Claims C5-C10: the weighting pass of analyse *)

\* The questions the LLM returned, without the synthetic abandoned entries.
RealQuestions == {k \in 1..Len(questions_data) : ~questions_data[k].is_abandoned}

\* analyse returned after running the weighting pass.
Weighted_Done == apc = "done" /\ analysis.scored

C6_AbandonedCompensation ==
    [][(apc = "loop" /\ apc' = "normalize") =>
        LET n == Cardinality(Scorable(questions_data))
            old == Len(questions_data)
        IN  /\ raw_score' = raw_score
            /\ domain_raw_score' = domain_raw_score
            /\ n < 7 =>
                /\ Len(questions_data') = old + (7 - n)
                /\ SubSeq(questions_data', 1, old) = questions_data
                /\ \A k \in (old + 1)..(old + 7 - n) :
                      /\ questions_data'[k].is_abandoned
                      /\ questions_data'[k].difficulty = "medium"
                      /\ questions_data'[k].difficulty_multiplier = 12
                      /\ questions_data'[k].weighted_score = 0
                /\ max_score' = max_score + (7 - n) * 60
                /\ domain_max_score' = domain_max_score + (7 - n) * 60
            /\ n >= 7 =>
                /\ questions_data' = questions_data
                /\ max_score' = max_score
                /\ domain_max_score' = domain_max_score]_vars

\* Four real hard questions were scored and three abandoned slots added 18
\* points (180 tenths) to the maximum of 4 * 7.5.
C6_Witness ==
    /\ apc = "normalize"
    /\ scorable_count = 4
    /\ Len(questions_data) = 7
    /\ ~questions_data[4].is_abandoned
    /\ questions_data[5].is_abandoned
    /\ max_score = 300 + 180
    /\ domain_max_score = 300 + 180

\* round(0.8 * normalized_domain_score + 0.2 * communication_score) on the
\* unrounded normalized score
OverallRounded(domain_raw, domain_max, communication) ==
    IF domain_max > 0
    THEN RoundHalfEven(400 * domain_raw + communication * domain_max, 5 * domain_max)
    ELSE RoundHalfEven(communication, 5)

\* C7: after every weighting pass overall_score is the weighted sum
\* 0.8 * normalized_domain_score + 0.2 * communication_score rounded to the
\* nearest integer.
C7_OverallScoreRounded ==
    Weighted_Done =>
        analysis.overall_score =
            OverallRounded(domain_raw_score, domain_max_score,
                           CommunicationUsed(communication_score))

\* C8: both components of overall_score lie in [0,100]: the raw domain score
\* is between 0 and its maximum, the normalized domain score between 0 and 100
\* (0 when the maximum is 0), and the communication score used is in 0..100.
C8_ComponentsInRange ==
    Weighted_Done =>
        /\ 0 <= analysis.raw_domain_score
        /\ analysis.raw_domain_score <= analysis.max_domain_score
        /\ analysis.normalized_domain_score \in 0..10000
        /\ analysis.max_domain_score = 0 => analysis.normalized_domain_score = 0
        /\ CommunicationUsed(communication_score) \in 0..100

\* The questions whose weighted score the loop added to raw_score.
Counted == {k \in RealQuestions : questions_data[k].difficulty # None}

\* C9: a question whose answer is empty, blank or a skip phrase counts 0
\* toward raw_score, whatever rubric score the LLM returned for it.
C9_SkippedAnswersScoreZero ==
    Weighted_Done =>
        \A k \in Counted :
            is_skipped_answer(questions_data[k].answer)
                => questions_data[k].weighted_score = 0

\* C10: raw_score and max_score are the sums of the weighted scores and of
\* 5 x multiplier over the questions not marked excluded_from_scoring (the
\* abandoned slots included in max_score), so a main question replaced by its
\* follow-up contributes to neither.
C10_FollowupReplacesMain ==
    Weighted_Done =>
        LET kept == Scorable(questions_data)
        IN  /\ analysis.raw_score =
                  SumOver([k \in kept |-> questions_data[k].weighted_score], kept)
            /\ analysis.max_score =
                  SumOver([k \in kept |-> 5 * questions_data[k].difficulty_multiplier], kept)

-----------------------------------------------------------------------------
(* Claims C11-C20 *)

\* C11: in the weighting pass a question that _is_greeting_question accepts
\* is marked excluded_from_scoring, leaves raw_score, max_score,
\* raw_domain_score and max_domain_score as they were, is not among the
\* scorable questions counted for the abandoned-interview threshold, and is
\* never the main question a later follow-up refers to.
C11_GreetingsExcluded ==
    /\ [](\A k \in 1..Len(questions_data) :
            (k < question_index /\ is_greeting_question(questions_data[k].question)) =>
                /\ questions_data[k].is_greeting
                /\ questions_data[k].excluded_from_scoring
                /\ questions_data[k].weighted_score = 0
                /\ k \notin Scorable(questions_data)
                /\ k # last_main_question_index
                /\ k \notin followup_counted_for_main)
    /\ [][(/\ apc = "loop"
           /\ question_index <= Len(questions_data)
           /\ is_greeting_question(questions_data[question_index].question)) =>
            /\ raw_score' = raw_score
            /\ max_score' = max_score
            /\ domain_raw_score' = domain_raw_score
            /\ domain_max_score' = domain_max_score
            /\ last_main_question_index' = last_main_question_index
            /\ followup_counted_for_main' = followup_counted_for_main]_vars
    /\ [][(apc = "loop" /\ apc' = "normalize") =>
            scorable_count' <=
                Cardinality({k \in 1..Len(questions_data) :
                                ~is_greeting_question(questions_data[k].question)})]_vars

\* A greeting stood between a main question and its follow-up: the greeting is
\* excluded and the follow-up replaced the main question before the greeting.
C11_Witness ==
    /\ Weighted_Done
    /\ Len(questions_data) >= 3
    /\ questions_data[2].is_greeting
    /\ questions_data[2].excluded_from_scoring
    /\ questions_data[3].replaces_main_question
    /\ questions_data[1].exclusion_reason = "Score replaced by follow-up question"
    /\ scorable_count = 1

\* The text with the commas removed that stand, outside a string, before a
\* closing brace or bracket.
RECURSIVE WithoutTrailingCommasFrom(_, _, _)
WithoutTrailingCommasFrom(s, i, in_string) ==
    IF i > Len(s) THEN <<>>
    ELSE IF s[i] = Quote
         THEN <<s[i]>> \o WithoutTrailingCommasFrom(s, i + 1, ~in_string)
    ELSE IF /\ ~in_string /\ s[i] = ","
            /\ SkipSpace(s, i + 1) <= Len(s)
            /\ s[SkipSpace(s, i + 1)] \in {"}", "]"}
         THEN WithoutTrailingCommasFrom(s, i + 1, FALSE)
    ELSE <<s[i]>> \o WithoutTrailingCommasFrom(s, i + 1, in_string)

\* A valid JSON object but for at least one trailing comma.
OnlyTrailingCommas(s) ==
    /\ ~IsJson(s)
    /\ IsJson(WithoutTrailingCommasFrom(s, 1, FALSE))
    /\ s[1] = "{"

\* C12: for a JSON object that is valid but for trailing commas before a
\* closing bracket or brace, the text _repair_json returns parses to the
\* object the text denotes once those commas are removed.
C12_RepairTrailingComma ==
    (rpc = "done" /\ OnlyTrailingCommas(json_str)) =>
        json_loads(repaired) = json_loads(WithoutTrailingCommasFrom(json_str, 1, FALSE))

\* The pipelines in which some step raised.
FailedPipelines == {i \in 1..Len(resumes) : raises_at[i] # None}

ResumeIds(records) == {records[k].resume_id : k \in 1..Len(records)}

\* C13 as stated: with exactly one pipeline hitting an exception the batch
\* returns N - 1 results, reports one failure, and the failed resume is
\* neither returned nor stored.
C13_FailedResumeDropped ==
    (bpc = "done" /\ Cardinality(FailedPipelines) = 1) =>
        /\ Len(results) = Len(resumes) - 1
        /\ batch_failed = 1
        /\ \A i \in FailedPipelines :
              resumes[i] \notin ResumeIds(results) \cup ResumeIds(stored)

\* C13: with exactly one pipeline hitting an exception in one of its steps
\* (and the fallback stored without error), the batch completes and returns
\* N results: the analysed result of every other resume and, for the failed
\* one, the fallback result (fit_score 50, MANUAL_REVIEW, processing_failed),
\* which is stored as well; process_batch counts no failure.
C13_FailedResumeGetsFallback ==
    (/\ bpc = "done"
     /\ Cardinality(FailedPipelines) = 1
     /\ \A i \in FailedPipelines : ~fallback_raises[i]) =>
        /\ Len(results) = Len(resumes)
        /\ batch_failed = 0
        /\ \A i \in 1..Len(resumes) :
              /\ results[i] = IF i \in FailedPipelines
                              THEN FallbackResult(resumes[i])
                              ELSE AnalysedResult(resumes[i])
              /\ Cardinality({k \in 1..Len(stored) : stored[k] = results[i]}) = 1
        /\ Len(stored) = Len(resumes)

\* Three resumes, the analysis of the third raised, and the batch is done.
C13_Witness ==
    /\ bpc = "done"
    /\ Len(resumes) = 3
    /\ FailedPipelines = {3}
    /\ raises_at[3] = "analyze_resume"
    /\ ~fallback_raises[3]
    /\ Len(results) = 3
    /\ results[3].status = "processing_failed"

\* ceil(n / d) for n >= 0 and d > 0
Ceil(n, d) == (n + d - 1) \div d

SumsTo100(criteria) == SumOver(criteria, CategorySet) = 100

\* C14: for criteria whose percentages sum to 100 and every total >= 1, no
\* category gets more than ceil(pct / 100 * total) + 1 questions; for
\* 30/30/20/20 and a total of 7 the counts also sum to 7.
C14_ProportionsRespected ==
    (dpc = "done" /\ SumsTo100(evaluation_criteria)) =>
        /\ \A c \in CategorySet :
              result[c] <= Ceil(evaluation_criteria[c] * total_questions, 100) + 1
        /\ (evaluation_criteria = ExampleCriteria /\ total_questions = 7) =>
              Total(result) = 7

\* 40/20/20/20 and 7 questions: screening rounds 2.8 up to 3 and also gets
\* the question the rounding left over, which is the bound ceil(2.8) + 1.
C14_Witness ==
    /\ dpc = "done"
    /\ SumsTo100(evaluation_criteria)
    /\ evaluation_criteria["screening"] = 40
    /\ total_questions = 7
    /\ result["screening"] = 4
    /\ Total(result) = 7

Undecodable == json_loads(CleanContent(content)) = JSONDecodeError

\* The response is prose: its first token is a word.
IsProse(text) ==
    StripWs(text) # <<>> /\ Head(StripWs(text)) \in {"I", "There", "Sure"}

\* C15 as stated: an undecodable response makes analyse raise, with the
\* empty-response message for an empty response, the conversational-text
\* message for every prose response and the unable-to-parse message otherwise.
C15_ProseIsConversational ==
    (cpc \in {"raised", "returned"} /\ Undecodable) =>
        /\ cpc = "raised"
        /\ error_message =
              IF content = <<>> THEN EmptyResponse
              ELSE IF IsProse(content) THEN ConversationalText
              ELSE UnableToParse

\* C15: an undecodable response makes analyse raise and never return; the
\* message is the empty-response one exactly when the response is the empty
\* str, the conversational-text one exactly when the stripped response
\* begins with "I" or "The", and the unable-to-parse one in every other case
\* (blank responses and prose with another beginning included); the outer
\* handler does not wrap it.
C15_DecodeFailureClassified ==
    (cpc \in {"raised", "returned"} /\ Undecodable) =>
        /\ cpc = "raised"
        /\ error_message \in {EmptyResponse, ConversationalText, UnableToParse}
        /\ error_message = EmptyResponse <=> content = <<>>
        /\ error_message = ConversationalText <=>
              (StripWs(content) # <<>> /\ Head(StripWs(content)) \in ConversationalOpenings)

\* Prose that begins with another word was received after a blank, and the
\* unable-to-parse message was raised for it.
C15_Witness ==
    /\ cpc = "raised"
    /\ Undecodable
    /\ content = <<Blank, "Sure", Blank, "I">>
    /\ error_message = UnableToParse

\* C16: generate_standardized_questions makes exactly one LLM call and,
\* whatever that call does, returns a question set whose count in every
\* category is the one _distribute_questions computed (a question without a
\* category counting as screening, as in the validation) and whose
\* total_questions is the number of questions in it; it always returns.
C16_GeneratedSetMatchesDistribution ==
    /\ gpc \in {"idle", "start", "prompted", "responded", "returned"}
    /\ gpc \in {"responded", "returned"} => llm_calls = 1
    /\ gpc = "returned" =>
        /\ question_distribution =
              distribute_questions(generation_input[1], generation_input[2])
        /\ \A c \in CategorySet :
              CategoryCount(generated.questions, c) = question_distribution[c]
        /\ generated.total_questions = Len(generated.questions)
        /\ \A k \in 1..Len(generated.questions) :
              generated.questions[k].category \in CategorySet \cup {None}

\* The LLM wrote the right number of questions in the wrong categories and the
\* canned set was returned in their place.
C16_Witness ==
    /\ gpc = "returned"
    /\ generation_input = <<ExampleCriteria, 3>>
    /\ response.kind = "questions"
    /\ Len(response.questions) = 3
    /\ ~DistributionValid(response.questions, question_distribution)
    /\ Len(generated.questions) = 3
    /\ \A k \in 1..3 : generated.questions[k].source = "fallback"

\* LLM calls in flight in the whole process.
InFlightInProcess ==
    SumOver([c \in DOMAIN calls |-> InFlight(calls[c])], DOMAIN calls)

\* C17: over all clients together no more than MAX_CONCURRENT_REQUESTS LLM
\* calls are in flight, and no permit is leaked: for every client the free
\* permits and the calls in flight add up to the permit count.
C17_ProcessWideGate ==
    /\ InFlightInProcess <= MAX_CONCURRENT_REQUESTS
    /\ \A c \in DOMAIN calls :
          rate_limiter[c] + InFlight(calls[c]) = MAX_CONCURRENT_REQUESTS

\* Question m is a main question: no greeting, and the first question or one
\* whose text is no follow-up.
IsMainQuestion(m) ==
    /\ ~is_greeting_question(questions_data[m].question)
    /\ (m = 1 \/ ~is_followup_question(questions_data[m].question))

\* Questions m+1..j are a run of follow-ups right after the main question m.
FollowupRun(m, j) ==
    /\ 1 <= m /\ m < j /\ j <= Len(questions_data)
    /\ IsMainQuestion(m)
    /\ \A l \in (m + 1)..j :
          /\ is_followup_question(questions_data[l].question)
          /\ ~is_greeting_question(questions_data[l].question)

\* C18: in a run of consecutive follow-ups after a main question the first
\* one replaces the main question and adds its weighted score to raw_score
\* and 5 x multiplier to max_score; the second and every later one is marked
\* excluded_from_scoring as a duplicate and changes no accumulator.
C18_OneFollowupPerMain ==
    /\ [](\A m, j \in 1..Len(questions_data) :
            (j < question_index /\ FollowupRun(m, j)) =>
                IF j = m + 1
                THEN /\ questions_data[j].replaces_main_question
                     /\ ~questions_data[j].excluded_from_scoring
                ELSE /\ questions_data[j].excluded_from_scoring
                     /\ questions_data[j].exclusion_reason =
                            "Already scored one follow-up for this main question"
                     /\ ~questions_data[j].replaces_main_question
                     /\ questions_data[j].weighted_score = 0)
    /\ [][(apc = "loop" /\ question_index <= Len(questions_data)) =>
            LET j == question_index
            IN  /\ (\E m \in 1..(j - 2) : FollowupRun(m, j)) =>
                      /\ raw_score' = raw_score
                      /\ max_score' = max_score
                      /\ domain_raw_score' = domain_raw_score
                      /\ domain_max_score' = domain_max_score
                /\ (j > 1 /\ FollowupRun(j - 1, j)) =>
                      /\ raw_score' = raw_score + questions_data'[j].weighted_score
                      /\ max_score' =
                            max_score + 5 * questions_data'[j].difficulty_multiplier]_vars

\* A main question was followed by three follow-ups: the first replaced it,
\* the other two were excluded as duplicates.
C18_Witness ==
    /\ Weighted_Done
    /\ FollowupRun(1, 4)
    /\ questions_data[1].exclusion_reason = "Score replaced by follow-up question"
    /\ questions_data[2].replaces_main_question
    /\ questions_data[3].excluded_from_scoring
    /\ questions_data[4].exclusion_reason =
          "Already scored one follow-up for this main question"
    /\ scorable_count = 1

\* C19: every decoded response that holds question_scores goes through the
\* weighting pass, with or without a known question set: the scores are
\* stored, and without a known set every weighted question has difficulty
\* "medium".
C19_WeightingAlwaysRuns ==
    (apc = "done" /\ has_question_scores) =>
        /\ analysis.scored
        /\ interview_questions = <<>> =>
              \A k \in Counted : questions_data[k].difficulty = "medium"

\* Position of a (category, difficulty) pair in category-then-difficulty order.
IndexIn(seq, x) == CHOOSE k \in 1..Len(seq) : seq[k] = x
PairRank(pair) == Len(Difficulties) * IndexIn(Categories, pair[1]) + IndexIn(Difficulties, pair[2])
RequestsFor(pair) == {k \in 1..Len(llm_requests) : llm_requests[k] = pair}
AllocatedCategories == {c \in CategorySet : pool_distribution[c] > 0}

\* C20: building the adaptive pool calls the LLM at most once for a
\* (category, difficulty) pair and never for a category with allocation 0,
\* whose three lists stay empty; the calls come in category-then-difficulty
\* order; when the pool is returned every pair of a category with a
\* positive allocation has had exactly one call, 3 x (number of such
\* categories) calls in all.
C20_OneCallPerPair ==
    qpc \in {"loop", "returned"} =>
        /\ \A c \in CategorySet, d \in DifficultySet :
              /\ Cardinality(RequestsFor(<<c, d>>)) <= 1
              /\ pool_distribution[c] = 0 =>
                    /\ RequestsFor(<<c, d>>) = {}
                    /\ question_pool[c][d] = <<>>
        /\ \A i \in 1..(Len(llm_requests) - 1) :
              PairRank(llm_requests[i]) < PairRank(llm_requests[i + 1])
        /\ qpc = "returned" =>
              /\ \A c \in AllocatedCategories, d \in DifficultySet :
                    Cardinality(RequestsFor(<<c, d>>)) = 1
              /\ Len(llm_requests) = 3 * Cardinality(AllocatedCategories)

\* A pool returned for criteria that leave two categories without questions,
\* with a call that fell back to the canned questions.
C20_Witness ==
    /\ qpc = "returned"
    /\ Cardinality(AllocatedCategories) = 2
    /\ Len(llm_requests) = 6
    /\ \E c \in AllocatedCategories, d \in DifficultySet :
          /\ question_pool[c][d] # <<>>
          /\ question_pool[c][d][1].source = "fallback"

\* C21: in the returned pool every slot of a category with a positive
\* allocation holds exactly that many questions, whatever the LLM returned.
C21_SlotsHoldCount ==
    qpc = "returned" =>
        \A c \in AllocatedCategories, d \in DifficultySet :
            Len(question_pool[c][d]) = pool_distribution[c]


\* C22: in the returned config the per-category distribution sums to the
\* config's total_questions, which is the criteria's number_of_questions, or
\* 7 when there is none.
C22_ConfigSumsToTotal ==
    qpc = "returned" =>
        /\ adaptive_config.total_questions =
              (IF pool_number_of_questions = <<>> THEN 7 ELSE pool_number_of_questions[1])
        /\ Total(adaptive_config.questions_per_category) = adaptive_config.total_questions


\* The slots of the pool that were filled with canned questions.
FallbackSlots ==
    {slot \in CategorySet \X DifficultySet :
        /\ question_pool[slot[1]][slot[2]] # <<>>
        /\ question_pool[slot[1]][slot[2]][1].source = "fallback"}

\* C23: a request whose call or decoding failed gives exactly count canned
\* questions, taken from the list of the requested category and of the
\* requested difficulty tier, each tagged with the category and with a
\* difficulty among easy, medium and hard.
C23_FallbackFromSameTier ==
    \A slot \in FallbackSlots :
        LET questions == question_pool[slot[1]][slot[2]]
        IN  /\ Len(questions) = pool_distribution[slot[1]]
            /\ \A k \in 1..Len(questions) :
                  /\ questions[k].category = slot[1]
                  /\ questions[k].tier = slot[2]
                  /\ "difficulty" \in DOMAIN questions[k]
                  /\ questions[k].difficulty \in DifficultySet


\* The main question a follow-up at j belongs to: the last main question
\* before j.
PrecedingMain(j) ==
    CHOOSE m \in 1..(j - 1) :
        IsMainQuestion(m) /\ \A l \in (m + 1)..(j - 1) : ~IsMainQuestion(l)

\* Some known question matches the text, in either direction.
MatchesKnown(question) ==
    \E k \in 1..Len(interview_questions) :
        \/ Contains(Lower(question), Lower(interview_questions[k].question))
        \/ Contains(Lower(interview_questions[k].question), Lower(question))

\* C24: a follow-up that replaces a main question carries the difficulty and
\* the multiplier of that main question, whatever its own text matches; a
\* main question whose text matches no known question has difficulty
\* "medium" and multiplier 1.2.
C24_FollowupInheritsDifficulty ==
    \A j \in 1..Len(questions_data) :
        j < question_index =>
            /\ questions_data[j].replaces_main_question =>
                  /\ questions_data[j].difficulty = questions_data[PrecedingMain(j)].difficulty
                  /\ questions_data[j].difficulty_multiplier =
                        questions_data[PrecedingMain(j)].difficulty_multiplier
                  /\ questions_data[j].difficulty_multiplier =
                        get_difficulty_multiplier(questions_data[j].difficulty)
            /\ (IsMainQuestion(j) /\ ~MatchesKnown(questions_data[j].question)) =>
                  /\ questions_data[j].difficulty = "medium"
                  /\ questions_data[j].difficulty_multiplier = 12

\* A follow-up whose own text matches a known question of another difficulty
\* has replaced a main question, and a question that matches nothing was
\* weighted.
C24_Witness ==
    /\ apc = "done"
    /\ \E j \in 1..Len(questions_data) :
          /\ j < question_index
          /\ questions_data[j].replaces_main_question
          /\ MatchesKnown(questions_data[j].question)
          /\ LookupDifficulty(interview_questions, questions_data[j].question)
                # questions_data[j].difficulty
    /\ \E j \in 1..Len(questions_data) :
          /\ j < question_index
          /\ IsMainQuestion(j)
          /\ ~MatchesKnown(questions_data[j].question)

\* C25: analyze_resume raises only when the call raised or returned nothing;
\* for every other response it returns the object decoded from the cleaned
\* response, else the object decoded from the output of _repair_json, else
\* the canned analysis; _repair_json hands back its input when one of its
\* steps raises.
C25_MalformedResponseNeverRaises ==
    /\ zpc = "raised" => llm_response \in {TransportError, <<>>}
    /\ zpc = "returned" =>
          LET cleaned == CleanResponse(llm_response)
          IN  IF IsJson(cleaned)
              THEN returned_analysis = json_loads(cleaned)
              ELSE /\ repaired_json =
                        (IF repair_step_raises THEN cleaned ELSE repair_json(cleaned))
                   /\ returned_analysis =
                        (IF IsJson(repaired_json) THEN json_loads(repaired_json)
                         ELSE fallback_analysis)

\* A response that is no JSON even after the repair came back as the canned
\* analysis.
C25_Witness ==
    /\ zpc = "returned"
    /\ llm_response \notin {TransportError, <<>>}
    /\ ~IsJson(CleanResponse(llm_response))
    /\ ~repair_step_raises
    /\ ~IsJson(repaired_json)
    /\ returned_analysis = fallback_analysis

\* The stored analyses of resume k of upload u.
AnalysesOf(u, k) ==
    {n \in 1..Len(resume_analyses) :
        resume_analyses[n].upload = u /\ resume_analyses[n].resume = resumes_data[u][k]}

\* C26: under every interleaving of the background runs of two uploads,
\* processed never exceeds total; processed counts the stored analyses; a
\* parsed resume has no stored analysis while its pipeline runs and exactly
\* one, real or fallback, once it has returned; a finished run has one
\* analysis for each of its parsed resumes, and when every run has finished
\* processed equals total.
C26_ProcessedWithinTotal ==
    /\ processing_status.processed <= processing_status.total
    /\ processing_status.processed = Len(resume_analyses)
    /\ \A u \in DOMAIN resume_task : \A k \in 1..Len(resume_task[u]) :
          Cardinality(AnalysesOf(u, k)) =
              (IF resume_task[u][k] = "returned" THEN 1 ELSE 0)
    /\ \A u \in DOMAIN upc :
          upc[u] = "finished" =>
              \A k \in 1..Len(resumes_data[u]) : Cardinality(AnalysesOf(u, k)) = 1
    /\ (upc # <<>> /\ \A u \in DOMAIN upc : upc[u] = "finished") =>
          processing_status.processed = processing_status.total

\* Both runs have finished after storing side by side; one upload had a file
\* that could not be parsed and one pipeline ended in the fallback.
C26_Witness ==
    /\ upc # <<>>
    /\ \A u \in DOMAIN upc : upc[u] = "finished"
    /\ processing_status.total = 3
    /\ processing_status.processed = 3
    /\ \E u \in DOMAIN upc : Len(resumes_data[u]) < Len(file_contents[u])
    /\ \E n \in 1..Len(resume_analyses) : resume_analyses[n].status = "processing_failed"
    /\ \E n \in 2..(Len(resume_analyses) - 1) :
          /\ resume_analyses[n].upload # resume_analyses[n - 1].upload
          /\ resume_analyses[n].upload # resume_analyses[n + 1].upload

\* C27: on every completion path the session's status becomes "completed"
\* only in a step that has stored a results row for the session; when the
\* analysis or the insert fails the status stays as it was.
C27_CompletedOnlyAfterStored ==
    /\ [](session_status = "completed" => interview_results # <<>>)
    /\ [][session_status' # session_status =>
            /\ session_status' = "completed"
            /\ Len(interview_results') = Len(interview_results) + 1]_vars

\* C28: whatever completion requests arrive for a session, and in whatever
\* order they run, interview_results holds at most one row for the session.
C28_AtMostOneResultRow ==
    Cardinality({n \in 1..Len(interview_results) :
        interview_results[n].interview_session_id = "session"}) <= 1

\* C29: once create_job has returned, the job is in the in-memory store if
\* and only if True was returned, which is if and only if the persistent
\* store holds it; a job the persistent store refused is gone from memory,
\* get_job gives None for it, and False was returned.
C29_CreateJobAllOrNothing ==
    \A r \in DOMAIN jpc :
        jpc[r] = "returned" =>
            /\ job_created[r] \in {"True", "False"}
            /\ (r \in memory_jobs) <=> (job_created[r] = "True")
            /\ (r \in job_posts) <=> (job_created[r] = "True")
            /\ r \notin job_posts => get_job(memory_jobs, r) = None

\* One request was accepted and one refused; both have returned.
C29_Witness ==
    \E r, q \in DOMAIN jpc :
        /\ jpc[r] = "returned" /\ jpc[q] = "returned"
        /\ job_created[r] = "True" /\ r \in memory_jobs
        /\ job_created[q] = "False" /\ q \notin memory_jobs

\* C30: a multi-configuration create_job_interview_setup request that returned
\* an error, for percentages that do not sum to 100 or for a failed insert,
\* leaves the job's active interview setups as they were before the request:
\* none deactivated, none added.
C30_FailedRequestKeepsActiveSetups ==
    (setup_pc = "returned" /\ setup_reply \in {"percentages", "insert_failed", "exception"})
        => ActiveSetups(interview_setup) = active_before

====
